---- MODULE Spec2Model ----
(***************************************************************************)
(* Smart Kitchen inventory: the unit conversion engine, the inventory      *)
(* matcher, the deduction planner and the bill merge resolver of           *)
(* food/views.py, over the Grocery table of food/models.py.                *)
(*                                                                         *)
(* Text is a tuple of one-character strings, so that lower(), strip(),     *)
(* rstrip('s') and the substring test are computed and not assumed.        *)
(* Quantities are exact rationals [n |-> numerator, d |-> denominator].    *)
(***************************************************************************)
EXTENDS Integers, Sequences, FiniteSets, TLC

----------------------------------------------------------------------------
(* Text *)

UpperToLower ==
    [c \in {"A","B","C","D","E","F","G","H","I","J","K","L","M","N","O","P","Q",
            "R","S","T","U","V","W","X","Y","Z"} |->
       CASE c = "A" -> "a" [] c = "B" -> "b" [] c = "C" -> "c" [] c = "D" -> "d"
         [] c = "E" -> "e" [] c = "F" -> "f" [] c = "G" -> "g" [] c = "H" -> "h"
         [] c = "I" -> "i" [] c = "J" -> "j" [] c = "K" -> "k" [] c = "L" -> "l"
         [] c = "M" -> "m" [] c = "N" -> "n" [] c = "O" -> "o" [] c = "P" -> "p"
         [] c = "Q" -> "q" [] c = "R" -> "r" [] c = "S" -> "s" [] c = "T" -> "t"
         [] c = "U" -> "u" [] c = "V" -> "v" [] c = "W" -> "w" [] c = "X" -> "x"
         [] c = "Y" -> "y" [] c = "Z" -> "z"]

\* str.lower()
Lower(s) ==
    [i \in 1..Len(s) |-> IF s[i] \in DOMAIN UpperToLower THEN UpperToLower[s[i]] ELSE s[i]]

RECURSIVE LStrip(_)
LStrip(s) == IF s # <<>> /\ Head(s) = " " THEN LStrip(Tail(s)) ELSE s

RECURSIVE RStripChar(_, _)
\* str.rstrip(c): every trailing c is removed, not only one
RStripChar(s, c) ==
    IF s # <<>> /\ s[Len(s)] = c THEN RStripChar(SubSeq(s, 1, Len(s) - 1), c) ELSE s

\* str.strip()
Strip(s) == RStripChar(LStrip(s), " ")

\* a in b  (substring test of two texts)
IsSubstring(a, b) ==
    \E i \in 0..(Len(b) - Len(a)) : SubSeq(b, i + 1, i + Len(a)) = a

----------------------------------------------------------------------------
(* Exact rational arithmetic for the float quantities *)

RECURSIVE Gcd(_, _)
Gcd(a, b) == IF b = 0 THEN a ELSE Gcd(b, a % b)

Abs(x) == IF x < 0 THEN -x ELSE x

\* the rational n/d in lowest terms with a positive denominator
Rat(n, d) ==
    LET g == Gcd(Abs(n), Abs(d))
        s == IF d < 0 THEN -1 ELSE 1
    IN  [n |-> (s * n) \div g, d |-> (s * d) \div g]

Whole(k) == [n |-> k, d |-> 1]

RAdd(a, b) == Rat(a.n * b.d + b.n * a.d, a.d * b.d)
RSub(a, b) == Rat(a.n * b.d - b.n * a.d, a.d * b.d)
\* the common factors are cancelled before multiplying, to keep the products small
RMul(a, b) ==
    LET g1 == Gcd(Abs(a.n), b.d)
        g2 == Gcd(Abs(b.n), a.d)
    IN  Rat((a.n \div g1) * (b.n \div g2), (a.d \div g2) * (b.d \div g1))
RDiv(a, b) == RMul(a, Rat(b.d, b.n))
RLe(a, b)  == a.n * b.d <= b.n * a.d
RLt(a, b)  == a.n * b.d < b.n * a.d

Zero == Whole(0)

----------------------------------------------------------------------------
(* Unit tokens and item names used by the model *)

u_l      == <<"l">>
u_L      == <<"L">>
u_ml     == <<"m","l">>
u_kg     == <<"k","g">>
u_g      == <<"g">>
u_cup    == <<"c","u","p">>
u_cups   == <<"c","u","p","s">>
u_tbsp   == <<"t","b","s","p">>
u_tsp    == <<"t","s","p">>
u_gal    == <<"g","a","l">>
u_oz     == <<"o","z">>
u_lb     == <<"l","b">>
u_unit   == <<"u","n","i","t">>
u_packet == <<"p","a","c","k","e","t">>
u_slice  == <<"s","l","i","c","e">>
u_bunch  == <<"b","u","n","c","h">>
u_liter  == <<"l","i","t","e","r">>
u_gram   == <<"g","r","a","m">>
u_kilogram   == <<"k","i","l","o","g","r","a","m">>
u_pound  == <<"p","o","u","n","d">>
u_ounce  == <<"o","u","n","c","e">>
u_tablespoon == <<"t","a","b","l","e","s","p","o","o","n">>
u_teaspoon   == <<"t","e","a","s","p","o","o","n">>
u_gallon == <<"g","a","l","l","o","n">>
u_fluid_ounce == <<"f","l","u","i","d"," ","o","u","n","c","e">>
u_Units == <<"U","n","i","t","s">>
u_piece == <<"p","i","e","c","e">>
u_as_needed == <<"a","s"," ","n","e","e","d","e","d">>
u_Packets == <<"P","a","c","k","e","t","s">>
u_slices == <<"s","l","i","c","e","s">>
u_Slices == <<"S","l","i","c","e","s">>
u_liters == <<"l","i","t","e","r","s">>
u_kg_sp == <<" ","k","g"," ">>
u_Cup == <<"C","u","p">>

w_bread     == <<"b","r","e","a","d">>
w_coriander == <<"c","o","r","i","a","n","d","e","r">>
w_spinach   == <<"s","p","i","n","a","c","h">>
w_mint      == <<"m","i","n","t">>
w_methi     == <<"m","e","t","h","i">>
w_palak     == <<"p","a","l","a","k">>

n_Milk      == <<"M","i","l","k">>
n_milk      == <<"m","i","l","k">>
n_Milk_sp   == <<"M","i","l","k"," ">>
n_Rice      == <<"R","i","c","e">>
n_OatMilk   == <<"O","a","t"," ","M","i","l","k">>
n_MILK      == <<"M","I","L","K">>
n_WholeMilk  == <<"W","h","o","l","e"," ","M","i","l","k">>
n_AlmondMilk == <<"A","l","m","o","n","d"," ","M","i","l","k">>
n_SlicedBreadPacket == <<"S","l","i","c","e","d"," ","B","r","e","a","d"," ","P","a","c","k","e","t">>
n_FreshCoriander == <<"F","r","e","s","h"," ","C","o","r","i","a","n","d","e","r">>
n_PalakPaneer == <<"p","a","l","a","k"," ","p","a","n","e","e","r">>

----------------------------------------------------------------------------
(* convert_quantity *)

\* Python None: a value equal to no quantity, row or item
NoneValue == [none |-> TRUE]
NoName == <<>>

\* volume_to_ml; the plural keys can never be hit after rstrip('s')
volume_to_ml ==
    [u \in {u_ml, u_l, u_liter, u_liter \o <<"s">>, u_cup, u_cups, u_tbsp,
            u_tablespoon, u_tsp, u_teaspoon, u_gal, u_gallon, u_oz, u_fluid_ounce} |->
       CASE u = u_ml -> Whole(1)
         [] u \in {u_l, u_liter, u_liter \o <<"s">>} -> Whole(1000)
         [] u \in {u_cup, u_cups} -> Whole(240)
         [] u \in {u_tbsp, u_tablespoon} -> Whole(15)
         [] u \in {u_tsp, u_teaspoon} -> Whole(5)
         [] u \in {u_gal, u_gallon} -> Whole(3785)
         [] u \in {u_oz, u_fluid_ounce} -> Rat(2957, 100)]

weight_to_g ==
    [u \in {u_g, u_gram, u_gram \o <<"s">>, u_kg, u_kilogram, u_kilogram \o <<"s">>,
            u_lb, u_pound, u_pound \o <<"s">>, u_oz, u_ounce, u_ounce \o <<"s">>} |->
       CASE u \in {u_g, u_gram, u_gram \o <<"s">>} -> Whole(1)
         [] u \in {u_kg, u_kilogram, u_kilogram \o <<"s">>} -> Whole(1000)
         [] u \in {u_lb, u_pound, u_pound \o <<"s">>} -> Rat(45359, 100)
         [] u \in {u_oz, u_ounce, u_ounce \o <<"s">>} -> Rat(2835, 100)]

\* from_unit.strip().lower().rstrip('s')
NormUnit(u) == RStripChar(Lower(Strip(u)), "s")

LeafyTriggers == {w_coriander, w_spinach, w_mint, w_methi, w_palak}

\* mutant: the item name is searched as given, not lower-cased
ItemSpecificCaseSensitive(qty, f, t, item_name) ==
    IF item_name = NoName THEN NoneValue
    ELSE IF IsSubstring(w_bread, item_name) /\ f = u_packet /\ t = u_slice
         THEN RMul(qty, Whole(15))
    ELSE IF IsSubstring(w_bread, item_name) /\ f = u_slice /\ t = u_packet
         THEN RDiv(qty, Whole(15))
    ELSE IF (\E x \in LeafyTriggers : IsSubstring(x, item_name))
            /\ ((f = u_packet /\ t = u_bunch) \/ (f = u_bunch /\ t = u_packet))
         THEN qty
    ELSE NoneValue

\* the ITEM SPECIFIC CONVERSIONS block; NoneValue when it does not return
ItemSpecific(qty, f, t, item_name) ==
    LET nm == Lower(item_name) IN
    IF item_name = NoName THEN NoneValue
    ELSE IF IsSubstring(w_bread, nm) /\ f = u_packet /\ t = u_slice
         THEN RMul(qty, Whole(15))
    ELSE IF IsSubstring(w_bread, nm) /\ f = u_slice /\ t = u_packet
         THEN RDiv(qty, Whole(15))
    ELSE IF (\E x \in LeafyTriggers : IsSubstring(x, nm))
            /\ ((f = u_packet /\ t = u_bunch) \/ (f = u_bunch /\ t = u_packet))
         THEN qty
    ELSE NoneValue

\* mutant: the volume factors are applied the wrong way round
GenericConvertInverted(qty, f, t) ==
    LET V == DOMAIN volume_to_ml
        W == DOMAIN weight_to_g
    IN  IF f \in V /\ t \in V THEN RDiv(RMul(qty, volume_to_ml[t]), volume_to_ml[f])
        ELSE IF f \in W /\ t \in W THEN RDiv(RMul(qty, weight_to_g[f]), weight_to_g[t])
        ELSE IF (f \in V /\ t \in W) \/ (f \in W /\ t \in V)
             THEN IF f \in V
                  THEN RDiv(RMul(qty, volume_to_ml[f]), weight_to_g[t])
                  ELSE RDiv(RMul(qty, weight_to_g[f]), volume_to_ml[t])
        ELSE NoneValue

\* mutant: from weight to volume the base grams are returned as they are
GenericConvertBridgeBase(qty, f, t) ==
    LET V == DOMAIN volume_to_ml
        W == DOMAIN weight_to_g
    IN  IF f \in V /\ t \in V THEN RDiv(RMul(qty, volume_to_ml[f]), volume_to_ml[t])
        ELSE IF f \in W /\ t \in W THEN RDiv(RMul(qty, weight_to_g[f]), weight_to_g[t])
        ELSE IF (f \in V /\ t \in W) \/ (f \in W /\ t \in V)
             THEN IF f \in V
                  THEN RDiv(RMul(qty, volume_to_ml[f]), weight_to_g[t])
                  ELSE RMul(qty, weight_to_g[f])
        ELSE NoneValue

\* mutant: a unit without a factor leaves the quantity as it is
GenericConvertCountAsOne(qty, f, t) ==
    LET V == DOMAIN volume_to_ml
        W == DOMAIN weight_to_g
    IN  IF f \in V /\ t \in V THEN RDiv(RMul(qty, volume_to_ml[f]), volume_to_ml[t])
        ELSE IF f \in W /\ t \in W THEN RDiv(RMul(qty, weight_to_g[f]), weight_to_g[t])
        ELSE IF (f \in V /\ t \in W) \/ (f \in W /\ t \in V)
             THEN IF f \in V
                  THEN RDiv(RMul(qty, volume_to_ml[f]), weight_to_g[t])
                  ELSE RDiv(RMul(qty, weight_to_g[f]), volume_to_ml[t])
        ELSE qty

\* mutant: a target in both tables takes its weight factor
GenericConvertOunceAsWeight(qty, f, t) ==
    LET V == DOMAIN volume_to_ml
        W == DOMAIN weight_to_g
    IN  IF f \in V /\ t \in V THEN RDiv(RMul(qty, volume_to_ml[f]),
                                       IF t \in W THEN weight_to_g[t] ELSE volume_to_ml[t])
        ELSE IF f \in W /\ t \in W THEN RDiv(RMul(qty, weight_to_g[f]), weight_to_g[t])
        ELSE IF (f \in V /\ t \in W) \/ (f \in W /\ t \in V)
             THEN IF f \in V
                  THEN RDiv(RMul(qty, volume_to_ml[f]), weight_to_g[t])
                  ELSE RDiv(RMul(qty, weight_to_g[f]), volume_to_ml[t])
        ELSE NoneValue

\* mutant: the density bridge is tried before the weight table
GenericConvertBridgeFirst(qty, f, t) ==
    LET V == DOMAIN volume_to_ml
        W == DOMAIN weight_to_g
    IN  IF f \in V /\ t \in V THEN RDiv(RMul(qty, volume_to_ml[f]), volume_to_ml[t])
        ELSE IF (f \in V /\ t \in W) \/ (f \in W /\ t \in V)
             THEN IF f \in V
                  THEN RDiv(RMul(qty, volume_to_ml[f]), weight_to_g[t])
                  ELSE RDiv(RMul(qty, weight_to_g[f]), volume_to_ml[t])
        ELSE IF f \in W /\ t \in W THEN RDiv(RMul(qty, weight_to_g[f]), weight_to_g[t])
        ELSE NoneValue

\* the table lookups after the item-specific block
GenericConvert(qty, f, t) ==
    LET V == DOMAIN volume_to_ml
        W == DOMAIN weight_to_g
    IN  IF f \in V /\ t \in V THEN RDiv(RMul(qty, volume_to_ml[f]), volume_to_ml[t])
        ELSE IF f \in W /\ t \in W THEN RDiv(RMul(qty, weight_to_g[f]), weight_to_g[t])
        ELSE IF (f \in V /\ t \in W) \/ (f \in W /\ t \in V)
             THEN IF f \in V
                  THEN RDiv(RMul(qty, volume_to_ml[f]), weight_to_g[t])
                  ELSE RDiv(RMul(qty, weight_to_g[f]), volume_to_ml[t])
        ELSE NoneValue

convert_quantity(qty, from_unit, to_unit, item_name) ==
    IF from_unit = to_unit THEN qty
    ELSE LET f == NormUnit(from_unit)
             t == NormUnit(to_unit)
             s == ItemSpecific(qty, f, t, item_name)
         IN  IF s # NoneValue THEN s ELSE GenericConvert(qty, f, t)

----------------------------------------------------------------------------
(* The Grocery table and the requests in flight *)

VARIABLES groceries, nextId, reqs, consumed, shopping, mt, cv, ps, rt, js

vars == <<groceries, nextId, reqs, consumed, shopping, mt, cv, ps, rt, js>>

\* the state of the request handlers, and the state of the computations checked apart
inventory == <<groceries, nextId, reqs, consumed, shopping>>
pure == <<mt, cv, ps, rt, js>>

\* the list entries and form posts taken by all requests of a behaviour
MaxItems == 2

Users == {"A", "B"}
Slots == {1, 2}

\* the columns of Grocery besides the implicit id
GroceryFields == {"grocery_name", "ex_date", "quantity", "unit", "grocerie_type", "user"}

\* the keyword arguments of Grocery.objects.create in save_bill_items and add_grocery
CreateKwargs ==
    {"grocery_name", "ex_date", "quantity", "unit", "grocerie_type",
     "manufacturing_date", "user"}

\* Model.__init__ raises TypeError on a keyword that is no field of the model
CreateAccepted == CreateKwargs \subseteq GroceryFields

NoId == 0

Row(id, user, name, qty, unit) ==
    [id |-> id, user |-> user, grocery_name |-> name, quantity |-> qty, unit |-> unit]

Idle ==
    [kind |-> "idle", user |-> "-", idx |-> 0, pc |-> "-", item |-> NoneValue,
     local |-> NoneValue, updated_count |-> 0, deleted_count |-> 0, saved_count |-> 0,
     last |-> "-"]

\* a request before the first pass of its loop; idx counts the entries taken
NewRequest(kind, user) ==
    [Idle EXCEPT !.kind = kind, !.user = user, !.pc = "loop"]

\* instance.save(): UPDATE by primary key, INSERT when no row was updated
Save(table, obj) ==
    [pk \in DOMAIN table \cup {obj.id} |-> IF pk = obj.id THEN obj ELSE table[pk]]

\* mutant: the delete leaves the row in the table
DeleteNothing(table, obj) == table

\* instance.delete(): DELETE by primary key
Delete(table, obj) == [pk \in DOMAIN table \ {obj.id} |-> table[pk]]

\* QuerySet.first() of an unordered queryset: the row with the lowest pk, or None
First(table, pks) ==
    IF pks = {} THEN NoneValue
    ELSE table[CHOOSE pk \in pks : \A other \in pks : pk <= other]

\* a ShoppingList row; grocery is the foreign key
ShopRow(id, grocery, user, quantity) ==
    [id |-> id, grocery |-> grocery, user |-> user, quantity |-> quantity]

\* mutant: the foreign key does not cascade (on_delete=DO_NOTHING)
CascadeNothing(list, obj) == list

\* mutant: the whole shopping list of the owner goes with the record
CascadeOwner(list, obj) == [pk \in {k \in DOMAIN list : list[k].user # obj.user} |-> list[pk]]

\* on_delete=CASCADE of ShoppingList.grocery: the rows that reference obj go with it
Cascade(list, obj) == [pk \in {k \in DOMAIN list : list[k].grocery # obj.id} |-> list[pk]]

InitInventory ==
    /\ groceries = [pk \in {1, 2, 3} |->
                      CASE pk = 1 -> Row(1, "A", n_Milk, Whole(2), u_l)
                        [] pk = 2 -> Row(2, "B", n_milk, Whole(1), u_l)
                        [] pk = 3 -> Row(3, "A", n_Milk, Whole(1), u_unit)]
    /\ nextId = 4
    /\ reqs = [r \in Slots |-> Idle]
    /\ consumed = 0
    /\ shopping = [pk \in {1, 2, 3} |->
                     CASE pk = 1 -> ShopRow(1, 1, "A", 1)
                       [] pk = 2 -> ShopRow(2, 2, "B", 1)
                       [] pk = 3 -> ShopRow(3, 3, "A", 2)]

\* no candidate computation in progress
MatchIdle == [pc |-> "-"]

\* no call of convert_quantity or parse_ingredient_string under check
ConvertIdle == [pc |-> "-"]
ParseIdle == [pc |-> "-"]

\* no call of call_gemini_with_retry or get_list_from_json under check
RetryIdle == [pc |-> "-"]
JsonIdle == [pc |-> "-"]

\* the computations other than the one a specification is about are idle
IdleBut(v) ==
    /\ v = "mt" \/ mt = MatchIdle
    /\ v = "cv" \/ cv = ConvertIdle
    /\ v = "ps" \/ ps = ParseIdle
    /\ v = "rt" \/ rt = RetryIdle
    /\ v = "js" \/ js = JsonIdle

Init == InitInventory /\ IdleBut("-")

\* a request is served by the first free worker
FreeSlot(r) == reqs[r].kind = "idle" /\ \A other \in Slots : other < r => reqs[other].kind # "idle"

----------------------------------------------------------------------------
(* deduct_ingredients *)

DeductIds == {NoId, 1, 2, 3}
DeductQtys == {Zero, Rat(1, 2), Whole(1)}

\* mutant: the query forgets the user filter
DeductQueryAnyUser(table, grocery_id, user) ==
    First(table, {pk \in DOMAIN table : pk = grocery_id})

\* Grocery.objects.filter(pk=grocery_id, user=request.user).first()
DeductQuery(table, grocery_id, user) ==
    First(table, {pk \in DOMAIN table : pk = grocery_id /\ table[pk].user = user})

\* mutant: a zero amount is not skipped
DeductSkipsNegativeOnly(item) == item.grocery_id = NoId \/ RLt(item.deduct_qty, Zero)

\* if not grocery_id or deduct_qty <= 0: continue
DeductSkips(item) == item.grocery_id = NoId \/ RLe(item.deduct_qty, Zero)

\* mutant: a record is deleted only when the amount exceeds its quantity
DeductExhaustsStrict(grocery, deduct_qty) == RLt(grocery.quantity, deduct_qty)

\* if grocery.quantity <= deduct_qty: delete
DeductExhausts(grocery, deduct_qty) == RLe(grocery.quantity, deduct_qty)

\* grocery.quantity -= deduct_qty
Decremented(grocery, deduct_qty) == [grocery EXCEPT !.quantity = RSub(@, deduct_qty)]

StartDeduct(r, user) ==
    /\ FreeSlot(r)
    /\ reqs' = [reqs EXCEPT ![r] = NewRequest("deduct", user)]
    /\ UNCHANGED <<groceries, nextId, consumed>>
    /\ UNCHANGED <<shopping, pure>>

\* one pass of the loop body that ends in `continue`
DeductSkip(r, item) ==
    /\ reqs[r].kind = "deduct" /\ reqs[r].pc = "loop"
    /\ consumed < MaxItems
    /\ consumed' = consumed + 1
    /\ DeductSkips(item)
    /\ reqs' = [reqs EXCEPT ![r].item = item, ![r].local = NoneValue,
                            ![r].last = "skipped", ![r].idx = @ + 1]
    /\ UNCHANGED <<groceries, nextId>>
    /\ UNCHANGED <<shopping, pure>>

\* the loop body up to and including the query
DeductLookup(r, item) ==
    /\ reqs[r].kind = "deduct" /\ reqs[r].pc = "loop"
    /\ consumed < MaxItems
    /\ consumed' = consumed + 1
    /\ ~DeductSkips(item)
    /\ LET grocery == DeductQuery(groceries, item.grocery_id, reqs[r].user) IN
         reqs' = [reqs EXCEPT ![r].item = item,
                    ![r].local = grocery,
                    ![r].last = IF grocery = NoneValue THEN "notfound" ELSE "found",
                    ![r].pc = IF grocery = NoneValue THEN "loop" ELSE "write",
                    ![r].idx = @ + 1]
    /\ UNCHANGED <<groceries, nextId>>
    /\ UNCHANGED <<shopping, pure>>

\* mutant: the decrement is applied to the stored quantity (an F() update) instead
\* of writing the value computed from the row that was read
DeductWriteAtomic(r) ==
    /\ reqs[r].kind = "deduct" /\ reqs[r].pc = "write"
    /\ LET grocery == reqs[r].local
           deduct_qty == reqs[r].item.deduct_qty
       IN  IF DeductExhausts(grocery, deduct_qty)
           THEN /\ groceries' = Delete(groceries, grocery)
                /\ shopping' = Cascade(shopping, grocery)
                /\ reqs' = [reqs EXCEPT ![r].deleted_count = @ + 1, ![r].last = "deleted",
                                        ![r].local = NoneValue,
                                        ![r].pc = "loop"]
           ELSE /\ shopping' = shopping
                /\ groceries' =
                     IF grocery.id \in DOMAIN groceries
                     THEN [groceries EXCEPT ![grocery.id].quantity = RSub(@, deduct_qty)]
                     ELSE groceries
                /\ reqs' = [reqs EXCEPT ![r].updated_count = @ + 1, ![r].last = "updated",
                                        ![r].local = NoneValue,
                                        ![r].pc = "loop"]
    /\ UNCHANGED <<nextId, consumed>>
    /\ UNCHANGED pure

\* the delete or the save of the object read by DeductLookup
DeductWrite(r) ==
    /\ reqs[r].kind = "deduct" /\ reqs[r].pc = "write"
    /\ LET grocery == reqs[r].local
           deduct_qty == reqs[r].item.deduct_qty
       IN  IF DeductExhausts(grocery, deduct_qty)
           THEN /\ groceries' = Delete(groceries, grocery)
                /\ shopping' = Cascade(shopping, grocery)
                /\ reqs' = [reqs EXCEPT ![r].deleted_count = @ + 1, ![r].last = "deleted",
                                        ![r].local = NoneValue,
                                        ![r].pc = "loop"]
           ELSE LET saved == Decremented(grocery, deduct_qty) IN
                /\ groceries' = Save(groceries, saved)
                /\ shopping' = shopping
                /\ reqs' = [reqs EXCEPT ![r].updated_count = @ + 1, ![r].last = "updated",
                                        ![r].local = NoneValue,
                                        ![r].pc = "loop"]
    /\ UNCHANGED <<nextId, consumed>>
    /\ UNCHANGED pure

\* the JsonResponse after the loop
DeductRespond(r) ==
    /\ reqs[r].kind = "deduct" /\ reqs[r].pc = "loop"
    /\ reqs' = [reqs EXCEPT ![r] = Idle]
    /\ UNCHANGED <<groceries, nextId, consumed>>
    /\ UNCHANGED <<shopping, pure>>

DeductItems == [grocery_id : DeductIds, deduct_qty : DeductQtys]

----------------------------------------------------------------------------
(* save_bill_items *)

BillNames == {n_Milk_sp, n_Rice}
BillQtys == {Whole(500), Whole(1)}
BillUnits == {u_ml, u_L, u_unit}
BillItems == [name : BillNames, quantity : BillQtys, unit : BillUnits]

\* Grocery.objects.filter(user=request.user, grocery_name__iexact=bg_name).first()
BillQuery(table, bg_name, user) ==
    First(table, {pk \in DOMAIN table :
                    table[pk].user = user /\ Lower(table[pk].grocery_name) = Lower(bg_name)})

\* the quantity added to existing_item, or NoneValue when merged stays False
MergeQuantity(existing_item, bg_name, raw_qty, unit) ==
    IF Lower(existing_item.unit) = Lower(unit) THEN raw_qty
    ELSE convert_quantity(raw_qty, unit, existing_item.unit, bg_name)

StartBill(r, user) ==
    /\ FreeSlot(r)
    /\ reqs' = [reqs EXCEPT ![r] = NewRequest("bill", user)]
    /\ UNCHANGED <<groceries, nextId, consumed>>
    /\ UNCHANGED <<shopping, pure>>

\* the loop body up to the query and the in-memory merge
BillLookup(r, item) ==
    /\ reqs[r].kind = "bill" /\ reqs[r].pc = "loop"
    /\ consumed < MaxItems
    /\ consumed' = consumed + 1
    /\ LET bg_name == Strip(item.name)
           existing_item == BillQuery(groceries, bg_name, reqs[r].user)
           add == IF existing_item = NoneValue THEN NoneValue
                  ELSE MergeQuantity(existing_item, bg_name, item.quantity, item.unit)
       IN  IF add # NoneValue
           THEN reqs' = [reqs EXCEPT ![r].item = item, ![r].pc = "save", ![r].idx = @ + 1,
                           ![r].local = [existing_item EXCEPT !.quantity = RAdd(@, add)]]
           ELSE reqs' = [reqs EXCEPT ![r].item = item, ![r].pc = "create", ![r].idx = @ + 1,
                           ![r].local = existing_item]
    /\ UNCHANGED <<groceries, nextId>>
    /\ UNCHANGED <<shopping, pure>>

\* mutant: the save adds to the stored quantity (an F() update) instead of writing
\* the value computed from the row that was read
BillSaveAtomic(r) ==
    /\ reqs[r].kind = "bill" /\ reqs[r].pc = "save"
    /\ LET existing_item == reqs[r].local
           add == MergeQuantity(existing_item, Strip(reqs[r].item.name),
                                reqs[r].item.quantity, reqs[r].item.unit)
       IN  groceries' =
             IF existing_item.id \in DOMAIN groceries
             THEN [groceries EXCEPT ![existing_item.id].quantity = RAdd(@, add)]
             ELSE groceries
    /\ reqs' = [reqs EXCEPT ![r].saved_count = @ + 1, ![r].last = "merged",
                            ![r].local = NoneValue, ![r].pc = "loop"]
    /\ UNCHANGED <<nextId, consumed>>
    /\ UNCHANGED <<shopping, pure>>

\* existing_item.save() of a merged item
BillSave(r) ==
    /\ reqs[r].kind = "bill" /\ reqs[r].pc = "save"
    /\ groceries' = Save(groceries, reqs[r].local)
    /\ reqs' = [reqs EXCEPT ![r].saved_count = @ + 1, ![r].last = "merged",
                            ![r].local = NoneValue,
                            ![r].pc = "loop"]
    /\ UNCHANGED <<nextId, consumed>>
    /\ UNCHANGED <<shopping, pure>>

\* Grocery.objects.create of an item that was not merged; a TypeError it raises is
\* caught by the handler's except clause, which answers 500 and ends the request
BillCreate(r) ==
    /\ reqs[r].kind = "bill" /\ reqs[r].pc = "create"
    /\ IF CreateAccepted
       THEN /\ groceries' = Save(groceries, Row(nextId, reqs[r].user, Strip(reqs[r].item.name),
                                                reqs[r].item.quantity, reqs[r].item.unit))
            /\ nextId' = nextId + 1
            /\ reqs' = [reqs EXCEPT ![r].saved_count = @ + 1, ![r].last = "created",
                                    ![r].local = NoneValue,
                                    ![r].pc = "loop"]
       ELSE /\ reqs' = [reqs EXCEPT ![r] = Idle]
            /\ UNCHANGED <<groceries, nextId>>
    /\ UNCHANGED consumed
    /\ UNCHANGED <<shopping, pure>>

\* the JsonResponse after the loop
BillRespond(r) ==
    /\ reqs[r].kind = "bill" /\ reqs[r].pc = "loop"
    /\ reqs' = [reqs EXCEPT ![r] = Idle]
    /\ UNCHANGED <<groceries, nextId, consumed>>
    /\ UNCHANGED <<shopping, pure>>

----------------------------------------------------------------------------
(* add_grocery and edit_grocery *)

FormNames == {n_Milk, n_Rice}
FormQtys == {Whole(-1), Whole(1)}
FormUnits == {u_kg}

\* get_object_or_404(Grocery, pk=pk, user=request.user)
GetObject(table, pk, user) ==
    First(table, {k \in DOMAIN table : k = pk /\ table[k].user = user})

\* the POST of add_grocery: the create, whose exception is reported as a message
AddGrocery(user, name, qty, unit) ==
    /\ consumed < MaxItems
    /\ consumed' = consumed + 1
    /\ IF CreateAccepted
       THEN /\ groceries' = Save(groceries, Row(nextId, user, name, qty, unit))
            /\ nextId' = nextId + 1
       ELSE UNCHANGED <<groceries, nextId>>
    /\ UNCHANGED reqs
    /\ UNCHANGED <<shopping, pure>>

\* the lookup that opens edit_grocery; Http404 ends the request
EditGet(r, user, pk) ==
    /\ FreeSlot(r)
    /\ consumed < MaxItems
    /\ consumed' = consumed + 1
    /\ LET grocery == GetObject(groceries, pk, user) IN
         reqs' = IF grocery = NoneValue THEN reqs
                 ELSE [reqs EXCEPT ![r] = [Idle EXCEPT !.kind = "edit", !.user = user,
                                                        !.pc = "save", !.local = grocery]]
    /\ UNCHANGED <<groceries, nextId>>
    /\ UNCHANGED <<shopping, pure>>

\* the POST branch: the fields are assigned from the form and the object is saved
EditSave(r, name, qty, unit) ==
    /\ reqs[r].kind = "edit" /\ reqs[r].pc = "save"
    /\ groceries' = Save(groceries, [reqs[r].local EXCEPT !.grocery_name = name,
                                                          !.quantity = qty, !.unit = unit])
    /\ reqs' = [reqs EXCEPT ![r] = Idle]
    /\ UNCHANGED <<nextId, consumed>>
    /\ UNCHANGED <<shopping, pure>>

----------------------------------------------------------------------------

Next ==
    \/ \E r \in Slots, u \in Users : StartDeduct(r, u)
    \/ \E r \in Slots, item \in DeductItems : DeductSkip(r, item)
    \/ \E r \in Slots, item \in DeductItems : DeductLookup(r, item)
    \/ \E r \in Slots : DeductWrite(r)
    \/ \E r \in Slots : DeductRespond(r)
    \/ \E r \in Slots, u \in Users : StartBill(r, u)
    \/ \E r \in Slots, item \in BillItems : BillLookup(r, item)
    \/ \E r \in Slots : BillSave(r)
    \/ \E r \in Slots : BillCreate(r)
    \/ \E r \in Slots : BillRespond(r)
    \/ \E u \in Users, name \in FormNames, qty \in FormQtys, unit \in FormUnits :
         AddGrocery(u, name, qty, unit)
    \/ \E r \in Slots, u \in Users, pk \in DOMAIN groceries : EditGet(r, u, pk)
    \/ \E r \in Slots, name \in FormNames, qty \in FormQtys, unit \in FormUnits :
         EditSave(r, name, qty, unit)

Spec == Init /\ [][Next]_vars

----------------------------------------------------------------------------
(* The inventory matcher of get_recipe_deduction_candidates *)

MaxInventory == 3

MatchNames == {n_Milk, n_MILK, n_OatMilk, n_Rice, n_WholeMilk, n_AlmondMilk}
IngredientNames == {n_milk, n_OatMilk}

\* user_groceries in scan order: rows with distinct ids and any names
Inventories ==
    UNION {[1..n -> MatchNames] : n \in 0..MaxInventory}

\* mutant: an exact match is appended like a partial one
CollectedAppended(matches, g, ri_name) ==
    LET g_name == Lower(g.grocery_name)
        r_name == Lower(ri_name)
    IN  IF r_name = g_name \/ IsSubstring(r_name, g_name) \/ IsSubstring(g_name, r_name)
        THEN Append(matches, g)
        ELSE matches

\* mutant: an exact match is put behind the exact matches found before it
CollectedFirstExact(matches, g, ri_name) ==
    LET g_name == Lower(g.grocery_name)
        r_name == Lower(ri_name)
    IN  IF r_name = g_name
        THEN IF matches # <<>> /\ Lower(Head(matches).grocery_name) = r_name
             THEN <<Head(matches), g>> \o Tail(matches)
             ELSE <<g>> \o matches
        ELSE IF IsSubstring(r_name, g_name) \/ IsSubstring(g_name, r_name)
        THEN Append(matches, g)
        ELSE matches

\* mutant: a partial match is put at the front like an exact one
CollectedPartialPrepended(matches, g, ri_name) ==
    LET g_name == Lower(g.grocery_name)
        r_name == Lower(ri_name)
    IN  IF r_name = g_name \/ IsSubstring(r_name, g_name) \/ IsSubstring(g_name, r_name)
        THEN <<g>> \o matches
        ELSE matches

\* one pass of `for g in user_groceries`: matches.insert(0, g) or matches.append(g)
Collected(matches, g, ri_name) ==
    LET g_name == Lower(g.grocery_name)
        r_name == Lower(ri_name)
    IN  IF r_name = g_name THEN <<g>> \o matches
        ELSE IF IsSubstring(r_name, g_name) \/ IsSubstring(g_name, r_name)
        THEN Append(matches, g)
        ELSE matches

\* the loop variables of one recipe ingredient before the scan
MatchStart(rows, ri_name, ri_quantity, ri_unit) ==
    [pc |-> "scan", ri_name |-> ri_name, ri_quantity |-> ri_quantity, ri_unit |-> ri_unit,
     i |-> 0, matches |-> <<>>, best_match_id |-> NoneValue,
     deduct_qty_suggestion |-> ri_quantity, conversion_note |-> NoneValue,
     user_groceries |-> rows]

InitMatch ==
    /\ InitInventory /\ IdleBut("mt")
    /\ \E names \in Inventories, ri_name \in IngredientNames :
         mt = MatchStart([k \in 1..Len(names) |->
                            [id |-> k, grocery_name |-> names[k], unit |-> u_unit]],
                         ri_name, Whole(1), u_unit)

\* the next grocery of the scan
MatchScan ==
    /\ mt.pc = "scan" /\ mt.i < Len(mt.user_groceries)
    /\ mt' = [mt EXCEPT !.i = @ + 1,
                        !.matches = Collected(@, mt.user_groceries[mt.i + 1], mt.ri_name)]
    /\ UNCHANGED <<inventory, cv, ps, rt, js>>

\* if matches: best_match = matches[0]
MatchPick ==
    /\ mt.pc = "scan" /\ mt.i = Len(mt.user_groceries)
    /\ mt' = [mt EXCEPT !.pc = "done",
                        !.best_match_id = IF mt.matches # <<>> THEN [id |-> mt.matches[1].id]
                                          ELSE NoneValue]
    /\ UNCHANGED <<inventory, cv, ps, rt, js>>

\* round(x, 2) on the exact value: the nearest multiple of 1/100, a tie going to the
\* even one (a decimal tie that is no binary fraction is decided in the code by the
\* error of the double; the quantities drawn below stay away from such ties)
Round2(x) ==
    LET n == x.n * 100
        f == n \div x.d
        r == n - f * x.d
        k == IF 2 * r < x.d THEN f
             ELSE IF 2 * r > x.d THEN f + 1
             ELSE IF f % 2 = 0 THEN f ELSE f + 1
    IN  Rat(k, 100)

\* f"Converted from {ri.quantity} {ri.unit}", by the two values it formats
ConversionNote(ri_quantity, ri_unit) == [quantity |-> ri_quantity, unit |-> ri_unit]

\* mutant: the converted value is suggested as it is, not rounded
SuggestionUnrounded(ri_quantity, ri_unit, ri_name, best_match) ==
    LET converted == convert_quantity(ri_quantity, ri_unit, best_match.unit, ri_name) IN
    IF ri_unit # <<>> /\ best_match.unit # <<>>
       /\ Lower(ri_unit) # Lower(best_match.unit) /\ converted # NoneValue
    THEN [deduct_qty_suggestion |-> converted,
          conversion_note |-> ConversionNote(ri_quantity, ri_unit)]
    ELSE [deduct_qty_suggestion |-> ri_quantity, conversion_note |-> NoneValue]

\* mutant: the conversion runs from the inventory unit to the ingredient's unit
SuggestionReversed(ri_quantity, ri_unit, ri_name, best_match) ==
    LET converted == convert_quantity(ri_quantity, best_match.unit, ri_unit, ri_name) IN
    IF ri_unit # <<>> /\ best_match.unit # <<>>
       /\ Lower(ri_unit) # Lower(best_match.unit) /\ converted # NoneValue
    THEN [deduct_qty_suggestion |-> Round2(converted),
          conversion_note |-> ConversionNote(ri_quantity, ri_unit)]
    ELSE [deduct_qty_suggestion |-> ri_quantity, conversion_note |-> NoneValue]

\* the unit conversion check on the best match
Suggestion(ri_quantity, ri_unit, ri_name, best_match) ==
    LET converted == convert_quantity(ri_quantity, ri_unit, best_match.unit, ri_name) IN
    IF ri_unit # <<>> /\ best_match.unit # <<>>
       /\ Lower(ri_unit) # Lower(best_match.unit) /\ converted # NoneValue
    THEN [deduct_qty_suggestion |-> Round2(converted),
          conversion_note |-> ConversionNote(ri_quantity, ri_unit)]
    ELSE [deduct_qty_suggestion |-> ri_quantity, conversion_note |-> NoneValue]

\* deduct_qty_suggestion and conversion_note of the candidate appended for ri
MatchSuggest ==
    /\ mt.pc = "done"
    /\ LET s == IF mt.matches # <<>>
                THEN Suggestion(mt.ri_quantity, mt.ri_unit, mt.ri_name, mt.matches[1])
                ELSE [deduct_qty_suggestion |-> mt.ri_quantity, conversion_note |-> NoneValue]
       IN  mt' = [mt EXCEPT !.pc = "answered",
                            !.deduct_qty_suggestion = s.deduct_qty_suggestion,
                            !.conversion_note = s.conversion_note]
    /\ UNCHANGED <<inventory, cv, ps, rt, js>>

NextMatch == MatchScan \/ MatchPick \/ MatchSuggest

\* the rows scanned when the suggestion of a candidate is computed
MaxSuggestInventory == 2

n_Bread == <<"B","r","e","a","d">>

SuggestNames == {n_Milk, n_Bread}
SuggestGroceryUnits == {u_l, u_kg, u_slice, u_unit}
SuggestIngredientNames == {n_milk, n_Bread}
SuggestIngredientUnits == {<<>>, u_cup, u_tbsp, u_L, u_packet}
SuggestQtys == {Rat(1, 2), Rat(1, 8), Whole(2)}

SuggestInventories ==
    UNION {[1..n -> [grocery_name : SuggestNames, unit : SuggestGroceryUnits]] :
             n \in 0..MaxSuggestInventory}

InitSuggest ==
    /\ InitInventory /\ IdleBut("mt")
    /\ \E rows \in SuggestInventories, ri_name \in SuggestIngredientNames,
          ri_quantity \in SuggestQtys, ri_unit \in SuggestIngredientUnits :
         mt = MatchStart([k \in 1..Len(rows) |->
                            [id |-> k, grocery_name |-> rows[k].grocery_name,
                             unit |-> rows[k].unit]],
                         ri_name, ri_quantity, ri_unit)

SpecSuggest == InitSuggest /\ [][NextMatch]_vars

SpecMatch == InitMatch /\ [][NextMatch]_vars

\* deduct_ingredients requests alone
NextDeduct ==
    \/ \E r \in Slots, u \in Users : StartDeduct(r, u)
    \/ \E r \in Slots, item \in DeductItems : DeductSkip(r, item)
    \/ \E r \in Slots, item \in DeductItems : DeductLookup(r, item)
    \/ \E r \in Slots : DeductWrite(r)
    \/ \E r \in Slots : DeductRespond(r)

SpecDeduct == Init /\ [][NextDeduct]_vars

----------------------------------------------------------------------------
(* Calls of convert_quantity *)

ConvertUnits ==
    {u_ml, u_l, u_L, u_liters, u_cup, u_cups, u_Cup, u_tbsp, u_tsp, u_gal, u_oz,
     u_fluid_ounce, u_g, u_kg, u_kg_sp, u_lb, u_ounce,
     u_unit, u_Units, u_piece, u_as_needed,
     u_packet, u_Packets, u_slice, u_slices, u_Slices, u_bunch}
ConvertQtys == {Whole(1), Whole(2), Rat(1, 2), Rat(1, 4)}
ConvertNames == {NoName, n_Milk, n_SlicedBreadPacket, n_FreshCoriander, n_PalakPaneer}

InitConvert ==
    /\ InitInventory /\ IdleBut("cv")
    /\ \E qty \in ConvertQtys, from_unit \in ConvertUnits, to_unit \in ConvertUnits,
          item_name \in ConvertNames :
         cv = [pc |-> "call", qty |-> qty, from_unit |-> from_unit, to_unit |-> to_unit,
               item_name |-> item_name, result |-> NoneValue, back |-> NoneValue]

\* result = convert_quantity(qty, from_unit, to_unit, item_name)
ConvertCall ==
    /\ cv.pc = "call"
    /\ cv' = [cv EXCEPT !.pc = "returned",
                        !.result = convert_quantity(cv.qty, cv.from_unit, cv.to_unit,
                                                    cv.item_name)]
    /\ UNCHANGED <<inventory, mt, ps, rt, js>>

\* back = convert_quantity(result, to_unit, from_unit, item_name), when there is a result
ConvertBack ==
    /\ cv.pc = "returned" /\ cv.result # NoneValue
    /\ cv' = [cv EXCEPT !.pc = "back",
                        !.back = convert_quantity(cv.result, cv.to_unit, cv.from_unit,
                                                  cv.item_name)]
    /\ UNCHANGED <<inventory, mt, ps, rt, js>>

NextConvert == ConvertCall \/ ConvertBack

SpecConvert == InitConvert /\ [][NextConvert]_vars

----------------------------------------------------------------------------
(* parse_ingredient_string *)

Digit == {"0","1","2","3","4","5","6","7","8","9"}
DigitValue(c) ==
    CASE c = "0" -> 0 [] c = "1" -> 1 [] c = "2" -> 2 [] c = "3" -> 3 [] c = "4" -> 4
      [] c = "5" -> 5 [] c = "6" -> 6 [] c = "7" -> 7 [] c = "8" -> 8 [] c = "9" -> 9

RECURSIVE Run(_, _, _)
\* the length of the longest run of characters of set C in s from position i on:
\* what a greedy C+ or C* takes there
Run(s, i, C) == IF i <= Len(s) /\ s[i] \in C THEN 1 + Run(s, i + 1, C) ELSE 0

RECURSIVE ToInt(_)
\* the number a string of decimal digits writes
ToInt(ds) == IF ds = <<>> THEN 0 ELSE 10 * ToInt(SubSeq(ds, 1, Len(ds) - 1)) + DigitValue(ds[Len(ds)])

RECURSIVE Pow10(_)
Pow10(k) == IF k = 0 THEN 1 ELSE 10 * Pow10(k - 1)

\* the end of group 1 for each alternative of the pattern at the start of s, 0 when
\* the alternative does not match:  \d+\s+\d+/\d+  |  \d+/\d+  |  \d+\.\d+  |  \d+
MixedEnd(s) ==
    LET a == Run(s, 1, Digit)
        w == Run(s, a + 1, {" "})
        b == Run(s, a + w + 1, Digit)
        c == Run(s, a + w + b + 2, Digit)
    IN  IF a > 0 /\ w > 0 /\ b > 0 /\ a + w + b + 1 <= Len(s) /\ s[a + w + b + 1] = "/" /\ c > 0
        THEN a + w + b + 1 + c ELSE 0

SeparatedEnd(s, sep) ==
    LET a == Run(s, 1, Digit)
        c == Run(s, a + 2, Digit)
    IN  IF a > 0 /\ a + 1 <= Len(s) /\ s[a + 1] = sep /\ c > 0 THEN a + 1 + c ELSE 0

\* mutant: the alternatives are tried integer first
NumEndIntegerFirst(s) == Run(s, 1, Digit)

\* mutant: the decimal may start with its point, as in \d*\.\d+
NumEndLeadingPoint(s) ==
    IF MixedEnd(s) > 0 THEN MixedEnd(s)
    ELSE IF SeparatedEnd(s, "/") > 0 THEN SeparatedEnd(s, "/")
    ELSE IF SeparatedEnd(s, ".") > 0 THEN SeparatedEnd(s, ".")
    ELSE IF s # <<>> /\ s[1] = "." /\ Run(s, 2, Digit) > 0 THEN 1 + Run(s, 2, Digit)
    ELSE Run(s, 1, Digit)

\* the end of match.group(1): the first alternative that matches; 0 when match is None
NumEnd(s) ==
    IF MixedEnd(s) > 0 THEN MixedEnd(s)
    ELSE IF SeparatedEnd(s, "/") > 0 THEN SeparatedEnd(s, "/")
    ELSE IF SeparatedEnd(s, ".") > 0 THEN SeparatedEnd(s, ".")
    ELSE Run(s, 1, Digit)

\* float(text) of digits with at most one point
Float(ds) ==
    LET a == Run(ds, 1, Digit)
    IN  IF a = Len(ds) THEN Whole(ToInt(ds))
        ELSE Rat(ToInt(SubSeq(ds, 1, a) \o SubSeq(ds, a + 2, Len(ds))),
                 Pow10(Len(ds) - a - 1))

\* the exception float(num) / float(den) raises on a zero denominator; the try block
\* catches ValueError only
ZeroDivisionError == [raised |-> "ZeroDivisionError"]

\* a / b of two floats
FloatDiv(a, b) == IF b.n = 0 THEN ZeroDivisionError ELSE RDiv(a, b)

\* the value of num_str
NumValue(num_str) ==
    LET a == Run(num_str, 1, Digit)
        w == Run(num_str, a + 1, {" "})
    IN  IF w > 0
        THEN \* mixed fraction: whole, frac = num_str.split()
             LET frac == SubSeq(num_str, a + w + 1, Len(num_str))
                 b == Run(frac, 1, Digit)
                 q == FloatDiv(Float(SubSeq(frac, 1, b)), Float(SubSeq(frac, b + 2, Len(frac))))
             IN  IF q = ZeroDivisionError THEN q ELSE RAdd(Float(SubSeq(num_str, 1, a)), q)
        ELSE IF a < Len(num_str) /\ num_str[a + 1] = "/"
        THEN FloatDiv(Float(SubSeq(num_str, 1, a)), Float(SubSeq(num_str, a + 2, Len(num_str))))
        ELSE Float(num_str)

RECURSIVE Split(_)
\* str.split(): the words between runs of blanks
Split(s) ==
    LET t == LStrip(s)
        k == Run(t, 1, {c \in {t[i] : i \in 1..Len(t)} : c # " "})
    IN  IF t = <<>> THEN <<>>
        ELSE <<SubSeq(t, 1, k)>> \o Split(SubSeq(t, k + 1, Len(t)))

RECURSIVE Join(_)
\* " ".join(words)
Join(words) ==
    IF words = <<>> THEN <<>>
    ELSE IF Len(words) = 1 THEN words[1]
    ELSE words[1] \o <<" ">> \o Join(Tail(words))

\* the list `units`, in its order
units ==
    <<<<"c","u","p">>,
      <<"c","u","p","s">>,
      <<"t","b","s","p">>,
      <<"t","s","p">>,
      <<"g">>,
      <<"k","g">>,
      <<"m","l">>,
      <<"l">>,
      <<"o","z">>,
      <<"l","b">>,
      <<"p","i","e","c","e">>,
      <<"p","i","e","c","e","s">>,
      <<"s","l","i","c","e">>,
      <<"s","l","i","c","e","s">>,
      <<"c","l","o","v","e">>,
      <<"c","l","o","v","e","s">>,
      <<"p","i","n","c","h">>,
      <<"b","u","n","c","h">>,
      <<"p","a","c","k","e","t">>>>

\* the for ... else over units: the first u with potential_unit == u or == u + 's'
UnitHits(potential_unit) ==
    {k \in 1..Len(units) : potential_unit = units[k] \/ potential_unit = units[k] \o <<"s">>}

parse_ingredient_string(ingredient_str) ==
    LET str == Strip(ingredient_str)
        e == NumEnd(str)
        num_str == SubSeq(str, 1, e)
        rest == Strip(SubSeq(str, e + 1, Len(str)))
        qty == NumValue(num_str)
        words == Split(rest)
        potential_unit == RStripChar(Lower(words[1]), "s")
        hits == UnitHits(potential_unit)
    IN  IF e = 0 THEN [qty |-> Whole(1), unit |-> u_as_needed, name |-> str]
        ELSE IF qty = ZeroDivisionError THEN qty
        ELSE IF words = <<>> THEN [qty |-> qty, unit |-> u_as_needed, name |-> str]
        ELSE IF hits # {}
        THEN [qty |-> qty, unit |-> units[CHOOSE k \in hits : \A o \in hits : k <= o],
              name |-> Join(Tail(words))]
        ELSE [qty |-> qty, unit |-> u_unit, name |-> rest]

\* the length of the numeric part of the texts parsed
MaxNumLen == 5

NumChars == {"0", "1", "2", " ", "/", "."}
ParseTails ==
    {<<>>,
     <<" ","c","u","p"," ","M","i","l","k">>,
     <<"g"," ","C","h","i","c","k","e","n">>,
     <<" ","C","u","p","s"," "," ","R","i","c","e">>,
     <<" ","A","p","p","l","e","s">>,
     <<"S","a","l","t"," ","t","o"," ","t","a","s","t","e">>}
ParseInputs ==
    {h \o t : h \in UNION {[1..n -> NumChars] : n \in 0..MaxNumLen}, t \in ParseTails}

InitParse ==
    /\ InitInventory /\ IdleBut("ps")
    /\ \E ingredient_str \in ParseInputs :
         ps = [pc |-> "call", ingredient_str |-> ingredient_str, result |-> NoneValue]

\* result = parse_ingredient_string(ingredient_str)
ParseCall ==
    /\ ps.pc = "call"
    /\ ps' = [ps EXCEPT !.pc = "returned",
                        !.result = parse_ingredient_string(ps.ingredient_str)]
    /\ UNCHANGED <<inventory, mt, cv, rt, js>>

NextParse == ParseCall

SpecParse == InitParse /\ [][NextParse]_vars

\* one deduct_ingredients request at a time
NextOneDeduct ==
    \/ \E u \in Users : StartDeduct(1, u)
    \/ \E item \in DeductItems : DeductSkip(1, item)
    \/ \E item \in DeductItems : DeductLookup(1, item)
    \/ DeductWrite(1)
    \/ DeductRespond(1)

SpecOneDeduct == Init /\ [][NextOneDeduct]_vars

----------------------------------------------------------------------------
(* A suggestion of get_recipe_deduction_candidates submitted to deduct_ingredients *)

PlanAmounts == {Whole(1), Rat(1, 2), Whole(2)} \X {u_ml, u_l, u_cup, u_unit}

\* user_groceries of the user: the rows of Grocery.objects.filter(user=user), by id
UserGroceries(user) ==
    LET RECURSIVE Rows(_)
        Rows(pks) ==
          IF pks = {} THEN <<>>
          ELSE LET pk == CHOOSE k \in pks : \A o \in pks : k <= o
               IN  <<[id |-> pk, grocery_name |-> groceries[pk].grocery_name,
                      unit |-> groceries[pk].unit]>> \o Rows(pks \ {pk})
    IN  Rows({pk \in DOMAIN groceries : groceries[pk].user = user})

InitPlan ==
    /\ InitInventory /\ IdleBut("mt")
    /\ \E user \in Users, amount \in PlanAmounts :
         mt = MatchStart(UserGroceries(user), n_milk, amount[1], amount[2])
                @@ [user |-> user]

\* the entry the page posts for the candidate: the matched record and the suggestion
PlanEntry ==
    [grocery_id |-> IF mt.best_match_id = NoneValue THEN NoId ELSE mt.best_match_id.id,
     deduct_qty |-> mt.deduct_qty_suggestion]

NextPlan ==
    \/ MatchScan
    \/ MatchPick
    \/ MatchSuggest
    \/ \E r \in Slots : mt.pc = "answered" /\ StartDeduct(r, mt.user)
    \/ \E r \in Slots : mt.pc = "answered" /\ DeductSkip(r, PlanEntry)
    \/ \E r \in Slots : mt.pc = "answered" /\ DeductLookup(r, PlanEntry)
    \/ \E r \in Slots : DeductWrite(r)
    \/ \E r \in Slots : DeductRespond(r)

SpecPlan == InitPlan /\ [][NextPlan]_vars

----------------------------------------------------------------------------
(* call_gemini_with_retry *)

\* the default of the parameter max_retries
max_retries == 3

StatusCodes == {200, 400, 404, 429, 500, 502, 503, 504}
Retryable == {503, 429, 500, 502, 504}
\* requests.Timeout, requests.ConnectionError
TransportErrors == {"Timeout", "ConnectionError"}
\* values of random.uniform(0, 1)
Jitters == {Zero, Rat(1, 2), Rat(99, 100)}

RECURSIVE Pow2(_)
Pow2(k) == IF k = 0 THEN 1 ELSE 2 * Pow2(k - 1)

\* the response object of the POST of an attempt
Response(status_code, attempt) == [status_code |-> status_code, attempt |-> attempt]

\* mutant: the last attempt is treated like the others, the loop ends and None is returned
IsLastAttemptNever(attempt) == FALSE

\* mutant: one attempt more is allowed before giving up
IsLastAttemptLate(attempt) == ~(attempt < max_retries)

\* not (attempt < max_retries - 1)
IsLastAttempt(attempt) == ~(attempt < max_retries - 1)

InitRetry ==
    /\ InitInventory /\ IdleBut("rt")
    /\ rt = [pc |-> "post", attempt |-> 0, posts |-> 0, sleeps |-> <<>>,
             got |-> NoneValue, result |-> NoneValue]

\* requests.post(...) of the attempt: a response with some status, or a transport error
RetryPost ==
    /\ rt.pc = "post" /\ rt.attempt < max_retries
    /\ \E outcome \in {Response(c, rt.attempt) : c \in StatusCodes}
                      \cup {[raised |-> e] : e \in TransportErrors} :
         rt' = [rt EXCEPT !.pc = "got", !.posts = @ + 1, !.got = outcome]
    /\ UNCHANGED <<inventory, mt, cv, ps, js>>

\* the rest of the loop body: return, raise, or sleep and go to the next attempt
RetryHandle ==
    /\ rt.pc = "got"
    /\ LET failed == "raised" \in DOMAIN rt.got IN
       IF ~failed /\ rt.got.status_code \notin Retryable
       THEN rt' = [rt EXCEPT !.pc = "returned", !.result = rt.got]
       ELSE IF IsLastAttempt(rt.attempt)
       THEN IF failed THEN rt' = [rt EXCEPT !.pc = "raised", !.result = rt.got]
            ELSE rt' = [rt EXCEPT !.pc = "returned", !.result = rt.got]
       ELSE \E jitter \in Jitters :
              rt' = [rt EXCEPT !.pc = IF rt.attempt + 1 < max_retries THEN "post"
                                      ELSE "returned",
                               !.result = NoneValue,
                               !.attempt = @ + 1,
                               !.sleeps = Append(@, RAdd(Whole(Pow2(rt.attempt)), jitter))]
    /\ UNCHANGED <<inventory, mt, cv, ps, js>>

NextRetry == RetryPost \/ RetryHandle

SpecRetry == InitRetry /\ [][NextRetry]_vars

----------------------------------------------------------------------------
(* get_list_from_json *)

\* JSON values: a list by its items, a dict by its entries in insertion order, and
\* anything else (string, number, null)
JsonList(items) == [t |-> "list", items |-> items]
JsonDict(entries) == [t |-> "dict", entries |-> entries]
JsonScalar == [t |-> "scalar"]

k_recipes == <<"r","e","c","i","p","e","s">>
k_data == <<"d","a","t","a">>
k_status == <<"s","t","a","t","u","s">>

\* data[key] of a dict, NoneValue when the key is absent
JsonGet(data, key) ==
    LET at == {i \in 1..Len(data.entries) : data.entries[i].key = key}
    IN  IF at = {} THEN NoneValue ELSE data.entries[CHOOSE i \in at : TRUE].value

RECURSIVE get_list_from_json(_)
RECURSIVE SearchOtherKeys(_, _)

\* the loop `for key, value in data.items()` from entry i on; [] when it runs out
SearchOtherKeys(entries, i) ==
    IF i > Len(entries) THEN JsonList(<<>>)
    ELSE LET key == entries[i].key
             value == entries[i].value
             found == get_list_from_json(value)
         IN  IF value.t = "list" /\ IsSubstring(k_recipes, Lower(key)) THEN value
             ELSE IF value.t \in {"dict", "list"} /\ found.items # <<>> THEN found
             ELSE SearchOtherKeys(entries, i + 1)

get_list_from_json(data) ==
    IF data.t = "list" THEN data
    ELSE IF data.t = "dict"
    THEN LET val == JsonGet(data, k_recipes) IN
         IF val # NoneValue /\ val.t = "list" THEN val
         ELSE IF val # NoneValue /\ val.t = "dict" THEN get_list_from_json(val)
         ELSE SearchOtherKeys(data.entries, 1)
    ELSE JsonList(<<>>)

JsonKeys == {k_recipes, k_data, k_status}
JsonLeaves == {JsonScalar, JsonList(<<>>), JsonList(<<"recipe">>), JsonList(<<"other">>)}

\* the dicts of at most one entry, and of at most two entries with different keys,
\* over the values V
DictsOfOne(V) ==
    {JsonDict(<<>>)} \cup {JsonDict(<<[key |-> k, value |-> v]>>) : k \in JsonKeys, v \in V}
DictsOfTwo(V) ==
    DictsOfOne(V) \cup
    {JsonDict(<<[key |-> e[1], value |-> e[2]], [key |-> e[3], value |-> e[4]]>>) :
       e \in {x \in JsonKeys \X V \X JsonKeys \X V : x[1] # x[3]}}

JsonTrees == JsonLeaves \cup DictsOfTwo(JsonLeaves \cup DictsOfOne(JsonLeaves))

InitJson ==
    /\ InitInventory /\ IdleBut("js")
    /\ \E data \in JsonTrees : js = [pc |-> "call", data |-> data, result |-> NoneValue]

\* result = get_list_from_json(data)
JsonCall ==
    /\ js.pc = "call"
    /\ js' = [js EXCEPT !.pc = "returned", !.result = get_list_from_json(js.data)]
    /\ UNCHANGED <<inventory, mt, cv, ps, rt>>

NextJson == JsonCall

SpecJson == InitJson /\ [][NextJson]_vars

----------------------------------------------------------------------------
(* Properties of the deduction planner and the bill merge resolver *)

\* request r takes the step
Took(r) == reqs'[r] # reqs[r]

\* request r takes a new entry of its list in the step
TakesEntry(r, kind) == reqs[r].kind = kind /\ reqs'[r].idx = reqs[r].idx + 1

Owns(user, pk) == pk \in DOMAIN groceries /\ groceries[pk].user = user

Positive(q) == RLt(Zero, q)

\* C1: an entry with a positive amount whose grocery_id resolves to a record of the
\* requesting user is applied to that record: when the stored quantity is <= the
\* amount the record is deleted and deleted_count alone grows by one, otherwise the
\* stored quantity becomes quantity - amount and updated_count alone grows by one.
C1_DeductApplies ==
    [][\A r \in Slots :
         /\ TakesEntry(r, "deduct")
              => LET it == reqs'[r].item IN
                 (it.grocery_id # NoId /\ Positive(it.deduct_qty)
                    /\ Owns(reqs[r].user, it.grocery_id))
                 => reqs'[r].pc = "write" /\ reqs'[r].local = groceries[it.grocery_id]
         /\ (reqs[r].kind = "deduct" /\ reqs[r].pc = "write" /\ Took(r)
               /\ Owns(reqs[r].user, reqs[r].local.id)
               /\ groceries[reqs[r].local.id] = reqs[r].local)
              => LET pk == reqs[r].local.id
                     q == groceries[pk].quantity
                     d == reqs[r].item.deduct_qty
                 IN  IF RLe(q, d)
                     THEN /\ pk \notin DOMAIN groceries'
                          /\ reqs'[r].deleted_count = reqs[r].deleted_count + 1
                          /\ reqs'[r].updated_count = reqs[r].updated_count
                     ELSE /\ pk \in DOMAIN groceries'
                          /\ groceries'[pk] = [groceries[pk] EXCEPT !.quantity = RSub(q, d)]
                          /\ reqs'[r].updated_count = reqs[r].updated_count + 1
                          /\ reqs'[r].deleted_count = reqs[r].deleted_count
    ]_vars

\* quantity 2.0 with amount 0.5 leaves 1.5 and updated_count = 1
C1_Witness ==
    \E r \in Slots :
        /\ reqs[r].kind = "deduct" /\ reqs[r].last = "updated"
        /\ reqs[r].item = [grocery_id |-> 1, deduct_qty |-> Rat(1, 2)]
        /\ reqs[r].updated_count = 1 /\ reqs[r].deleted_count = 0
        /\ 1 \in DOMAIN groceries /\ groceries[1].quantity = Rat(3, 2)

\* C2: from an inventory of positive quantities, deduct_ingredients requests alone
\* never leave a record with a quantity that is zero or negative.
C2_NeverAtZero == \A pk \in DOMAIN groceries : Positive(groceries[pk].quantity)

\* quantity 1.0 with amount 1.0 deletes the record: deleted_count = 1, not updated
C2_Witness ==
    \E r \in Slots :
        /\ reqs[r].kind = "deduct" /\ reqs[r].last = "deleted"
        /\ reqs[r].item = [grocery_id |-> 3, deduct_qty |-> Whole(1)]
        /\ reqs[r].deleted_count = 1 /\ reqs[r].updated_count = 0
        /\ 3 \notin DOMAIN groceries

\* C3: an entry with a non-positive amount, a missing id or an id that resolves to no
\* record of the requesting user changes no record and neither count, and the request
\* goes on with its loop as it was.
C3_SkipIsSilent ==
    [][\A r \in Slots :
         TakesEntry(r, "deduct")
           => LET it == reqs'[r].item IN
              (it.grocery_id = NoId \/ ~Positive(it.deduct_qty)
                 \/ ~Owns(reqs[r].user, it.grocery_id))
              => /\ groceries' = groceries
                 /\ reqs'[r].updated_count = reqs[r].updated_count
                 /\ reqs'[r].deleted_count = reqs[r].deleted_count
                 /\ reqs'[r].kind = "deduct" /\ reqs'[r].pc = "loop"
                 /\ reqs'[r].user = reqs[r].user
    ]_vars

\* a request whose first entry was skipped has applied its second entry
C3_Witness ==
    \E r \in Slots :
        /\ reqs[r].kind = "deduct" /\ reqs[r].idx = 2 /\ reqs[r].last = "updated"
        /\ reqs[r].updated_count = 1 /\ reqs[r].deleted_count = 0
        /\ 1 \in DOMAIN groceries /\ groceries[1].quantity = Whole(1)

\* C4: a step of a deduct_ingredients or save_bill_items request of one user leaves
\* every record of every other user as it was and adds no record of another user.
C4_OwnerScoped ==
    [][\A r \in Slots :
         (reqs[r].kind \in {"deduct", "bill"} /\ Took(r))
           => /\ \A pk \in DOMAIN groceries :
                   groceries[pk].user # reqs[r].user
                     => pk \in DOMAIN groceries' /\ groceries'[pk] = groceries[pk]
              /\ \A pk \in DOMAIN groceries' \ DOMAIN groceries :
                   groceries'[pk].user = reqs[r].user
    ]_vars

\* user A has named B's record 2 in a deduction and scanned B's item name
C4_Witness ==
    /\ reqs[1].kind = "deduct" /\ reqs[1].user = "A" /\ reqs[1].last = "notfound"
    /\ reqs[1].item = [grocery_id |-> 2, deduct_qty |-> Whole(1)]
    /\ reqs[2].kind = "bill" /\ reqs[2].user = "A" /\ reqs[2].last = "merged"
    /\ Lower(Strip(reqs[2].item.name)) = Lower(groceries[2].grocery_name)
    /\ groceries[2] = Row(2, "B", n_milk, Whole(1), u_l)

\* C5: for each scanned item save_bill_items takes the first record of the user
\* whose name equals the trimmed scanned name ignoring case; it adds the scanned
\* quantity when the units are equal ignoring case, the converted quantity when the
\* conversion succeeds, and otherwise (Unconvertible, or no such record) creates a new
\* record with the scanned fields; a merge creates no record.
C5_MergeOrCreate ==
    [][\A r \in Slots :
         /\ TakesEntry(r, "bill")
              => LET it == reqs'[r].item
                     bg_name == Strip(it.name)
                     same == {pk \in DOMAIN groceries :
                                /\ groceries[pk].user = reqs[r].user
                                /\ Lower(groceries[pk].grocery_name) = Lower(bg_name)}
                 IN  IF same = {} THEN reqs'[r].pc = "create"
                     ELSE LET e == groceries[CHOOSE pk \in same : \A o \in same : pk <= o]
                              c == convert_quantity(it.quantity, it.unit, e.unit, bg_name)
                          IN  IF Lower(e.unit) = Lower(it.unit)
                              THEN /\ reqs'[r].pc = "save"
                                   /\ reqs'[r].local =
                                        [e EXCEPT !.quantity = RAdd(@, it.quantity)]
                              ELSE IF c # NoneValue
                              THEN /\ reqs'[r].pc = "save"
                                   /\ reqs'[r].local = [e EXCEPT !.quantity = RAdd(@, c)]
                              ELSE reqs'[r].pc = "create"
         /\ (reqs[r].kind = "bill" /\ reqs[r].pc = "save" /\ Took(r)
               /\ reqs[r].local.id \in DOMAIN groceries)
              => /\ DOMAIN groceries' = DOMAIN groceries
                 /\ groceries'[reqs[r].local.id] = reqs[r].local
         /\ (reqs[r].kind = "bill" /\ reqs[r].pc = "create" /\ Took(r))
              => \E pk \in DOMAIN groceries' \ DOMAIN groceries :
                    groceries'[pk] = Row(pk, reqs[r].user, Strip(reqs[r].item.name),
                                         reqs[r].item.quantity, reqs[r].item.unit)
    ]_vars

\* C6: two deduct_ingredients requests that both read a record at quantity q before
\* either writes: the second write stores q minus its own amount, so the amount of
\* the first request is lost (the result is not q minus both amounts).
C6_DeductLostUpdate ==
    [][\A r1, r2 \in Slots :
         (/\ r1 # r2
          /\ reqs[r2].kind = "deduct" /\ reqs[r2].pc = "write" /\ Took(r2)
          /\ ~RLe(reqs[r2].local.quantity, reqs[r2].item.deduct_qty)
          /\ reqs[r1].kind = "deduct" /\ reqs[r1].last = "updated"
          /\ reqs[r1].item.grocery_id = reqs[r2].local.id
          /\ reqs[r2].local.id \in DOMAIN groceries
          /\ groceries[reqs[r2].local.id].quantity =
               RSub(reqs[r2].local.quantity, reqs[r1].item.deduct_qty))
           => LET pk == reqs[r2].local.id
                  q == reqs[r2].local.quantity
                  d1 == reqs[r1].item.deduct_qty
                  d2 == reqs[r2].item.deduct_qty
              IN  /\ pk \in DOMAIN groceries'
                  /\ groceries'[pk].quantity = RSub(q, d2)
                  /\ groceries'[pk].quantity # RSub(RSub(q, d1), d2)
    ]_vars

\* both requests deducted 0.5 from record 1 read at 2.0, and 1.5 is stored
C6_Witness ==
    /\ \A r \in Slots :
         /\ reqs[r].kind = "deduct" /\ reqs[r].last = "updated"
         /\ reqs[r].item = [grocery_id |-> 1, deduct_qty |-> Rat(1, 2)]
         /\ reqs[r].updated_count = 1
    /\ 1 \in DOMAIN groceries /\ groceries[1].quantity = Rat(3, 2)

\* C7: two save_bill_items requests that merge into the same record, both having
\* read it at quantity q before either saves: the second save stores q plus its own
\* scanned quantity, so the quantity merged by the first request is lost.
C7_MergeLostUpdate ==
    [][\A r1, r2 \in Slots :
         (/\ r1 # r2
          /\ reqs[r2].kind = "bill" /\ reqs[r2].pc = "save" /\ Took(r2)
          /\ Lower(reqs[r2].item.unit) = Lower(reqs[r2].local.unit)
          /\ reqs[r1].kind = "bill" /\ reqs[r1].last = "merged"
          /\ reqs[r1].user = reqs[r2].user
          /\ Lower(Strip(reqs[r1].item.name)) = Lower(reqs[r2].local.grocery_name)
          /\ Lower(reqs[r1].item.unit) = Lower(reqs[r2].local.unit)
          /\ reqs[r2].local.id \in DOMAIN groceries
          /\ groceries[reqs[r2].local.id].quantity =
               RAdd(RSub(reqs[r2].local.quantity, reqs[r2].item.quantity),
                    reqs[r1].item.quantity))
           => LET pk == reqs[r2].local.id
                  a1 == reqs[r1].item.quantity
                  a2 == reqs[r2].item.quantity
                  q == RSub(reqs[r2].local.quantity, a2)
              IN  /\ groceries'[pk].quantity = RAdd(q, a2)
                  /\ groceries'[pk].quantity # RAdd(RAdd(q, a1), a2)
    ]_vars

\* both requests merged 1 L of Milk into record 1 read at 2.0, and 3.0 is stored
C7_Witness ==
    /\ \A r \in Slots :
         /\ reqs[r].kind = "bill" /\ reqs[r].user = "A" /\ reqs[r].last = "merged"
         /\ reqs[r].item = [name |-> n_Milk_sp, quantity |-> Whole(1), unit |-> u_L]
         /\ reqs[r].saved_count = 1
    /\ groceries[1].quantity = Whole(3)

\* C8: every stored record has quantity >= 0 in every reachable state.
C8_NonNegative == \A pk \in DOMAIN groceries : RLe(Zero, groceries[pk].quantity)

----------------------------------------------------------------------------
(* Properties of the inventory matcher *)

\* positions of the scan whose lower-cased name equals the ingredient's
ExactAt == {k \in 1..Len(mt.user_groceries) :
              Lower(mt.user_groceries[k].grocery_name) = Lower(mt.ri_name)}

\* positions whose name is not equal but contains, or is contained in, the ingredient's
PartialAt ==
    {k \in 1..Len(mt.user_groceries) \ ExactAt :
       \/ IsSubstring(Lower(mt.ri_name), Lower(mt.user_groceries[k].grocery_name))
       \/ IsSubstring(Lower(mt.user_groceries[k].grocery_name), Lower(mt.ri_name))}

Lowest(S) == CHOOSE k \in S : \A o \in S : k <= o
Highest(S) == CHOOSE k \in S : \A o \in S : k >= o

\* C9: the best match is the head of the candidate list: an exact-name item whenever
\* one exists, otherwise the first item in scan order that matches partially, and
\* None when nothing matches.
C9_BestMatch ==
    mt.pc = "done"
      => /\ mt.best_match_id =
              IF mt.matches = <<>> THEN NoneValue ELSE [id |-> mt.matches[1].id]
         /\ IF ExactAt # {}
            THEN \E k \in ExactAt : mt.best_match_id = [id |-> mt.user_groceries[k].id]
            ELSE IF PartialAt # {}
            THEN mt.best_match_id = [id |-> mt.user_groceries[Lowest(PartialAt)].id]
            ELSE mt.best_match_id = NoneValue

\* two partial matches come before the exact one, which is chosen
C9_Witness ==
    /\ mt.pc = "done" /\ Len(mt.user_groceries) = 3
    /\ PartialAt = {1, 2} /\ ExactAt = {3}
    /\ mt.best_match_id = [id |-> 3]

\* C10: among several exact matches the last one in scan order is chosen.
C10_LastExactWins ==
    (mt.pc = "done" /\ ExactAt # {})
      => mt.best_match_id = [id |-> mt.user_groceries[Highest(ExactAt)].id]

\* two exact matches, the first of them at the head of the scan: the later one wins
C10_Witness ==
    /\ mt.pc = "done"
    /\ Cardinality(ExactAt) >= 2 /\ 1 \in ExactAt
    /\ mt.best_match_id = [id |-> mt.user_groceries[Highest(ExactAt)].id]
    /\ mt.best_match_id # [id |-> 1]

\* C11 (as stated): with no exact match the chosen item is the last partial match
\* in scan order.
C11_LastPartial ==
    (mt.pc = "done" /\ ExactAt = {} /\ PartialAt # {})
      => mt.best_match_id = [id |-> mt.user_groceries[Highest(PartialAt)].id]

\* C11 (amended): with no exact match the chosen item is the first partial match in
\* scan order; the inventory ["Whole Milk", "Almond Milk"] and the target "milk" give
\* "Whole Milk".
C11_FirstPartial ==
    (mt.pc = "done" /\ ExactAt = {} /\ PartialAt # {})
      => /\ mt.best_match_id = [id |-> mt.user_groceries[Lowest(PartialAt)].id]
         /\ (/\ Len(mt.user_groceries) = 2
             /\ mt.user_groceries[1].grocery_name = n_WholeMilk
             /\ mt.user_groceries[2].grocery_name = n_AlmondMilk
             /\ mt.ri_name = n_milk) => mt.best_match_id = [id |-> 1]

\* ["Whole Milk", "Almond Milk"] scanned for "milk": two partial matches, the first chosen
C11_Witness ==
    /\ mt.pc = "done" /\ Len(mt.user_groceries) = 2
    /\ mt.user_groceries[1].grocery_name = n_WholeMilk
    /\ mt.user_groceries[2].grocery_name = n_AlmondMilk
    /\ mt.ri_name = n_milk
    /\ ExactAt = {} /\ PartialAt = {1, 2}
    /\ mt.best_match_id = [id |-> 1]

\* the inventory row the best match names
BestMatch == mt.user_groceries[CHOOSE k \in 1..Len(mt.user_groceries) :
                                 mt.best_match_id = [id |-> mt.user_groceries[k].id]]

\* C12: for a recipe ingredient, when a best match exists whose unit differs from the
\* ingredient's ignoring case and convert(ingredient quantity, ingredient unit, matched
\* unit, ingredient name) succeeds, the suggestion is the converted value rounded to
\* two decimals with the "Converted from <quantity> <unit>" note; when the conversion
\* gives None, when the units are equal ignoring case, or when nothing matches, the
\* suggestion is the raw recipe quantity with no note, and with no match
\* best_match_id is None.
C12_Suggestion ==
    mt.pc = "answered"
      => LET hit == mt.matches # <<>>
             differs == hit /\ Lower(mt.ri_unit) # Lower(BestMatch.unit)
             converted == IF differs
                          THEN convert_quantity(mt.ri_quantity, mt.ri_unit,
                                                BestMatch.unit, mt.ri_name)
                          ELSE NoneValue
         IN  /\ hit <=> mt.best_match_id # NoneValue
             /\ IF differs /\ converted # NoneValue
                THEN /\ mt.deduct_qty_suggestion = Round2(converted)
                     /\ mt.deduct_qty_suggestion.d \in {1, 2, 4, 5, 10, 20, 25, 50, 100}
                     /\ mt.conversion_note = [quantity |-> mt.ri_quantity, unit |-> mt.ri_unit]
                ELSE /\ mt.deduct_qty_suggestion = mt.ri_quantity
                     /\ mt.conversion_note = NoneValue

\* 0.5 tbsp of milk against Milk kept in l: 0.0075 l is suggested as 0.01 with the note
C12_Witness ==
    /\ mt.pc = "answered"
    /\ mt.ri_quantity = Rat(1, 2) /\ mt.ri_unit = u_tbsp
    /\ mt.best_match_id # NoneValue /\ BestMatch.unit = u_l
    /\ mt.deduct_qty_suggestion = Rat(1, 100)
    /\ mt.conversion_note = [quantity |-> Rat(1, 2), unit |-> u_tbsp]

----------------------------------------------------------------------------
(* Properties of the conversion engine *)

\* the two units of the call as the engine looks them up
FromNorm == NormUnit(cv.from_unit)
ToNorm == NormUnit(cv.to_unit)

\* the item name of the call holds the word, ignoring case
NameHolds(word) == cv.item_name # NoName /\ IsSubstring(word, Lower(cv.item_name))
BreadOverride ==
    NameHolds(w_bread) /\ <<FromNorm, ToNorm>> \in {<<u_packet, u_slice>>, <<u_slice, u_packet>>}
LeafyOverride ==
    /\ \E x \in {w_coriander, w_spinach, w_mint, w_methi, w_palak} : NameHolds(x)
    /\ <<FromNorm, ToNorm>> \in {<<u_packet, u_bunch>>, <<u_bunch, u_packet>>}

\* the factor tables as the specification gives them
VolumeFactor ==
    [u \in {u_ml, u_l, u_cup, u_tbsp, u_tsp, u_gal} |->
       CASE u = u_ml -> Whole(1) [] u = u_l -> Whole(1000) [] u = u_cup -> Whole(240)
         [] u = u_tbsp -> Whole(15) [] u = u_tsp -> Whole(5) [] u = u_gal -> Whole(3785)]
WeightFactor ==
    [u \in {u_g, u_kg, u_lb} |->
       CASE u = u_g -> Whole(1) [] u = u_kg -> Whole(1000) [] u = u_lb -> Rat(45359, 100)]
FluidOunce == Rat(2957, 100)
WeightOunce == Rat(2835, 100)

\* C13: whenever the two unit tokens are equal as raw strings or become equal after
\* normalization (trim, lower-case, trailing s stripped), convert returns the quantity
\* unchanged, for registered and unregistered tokens, with or without an item name.
C13_Identity ==
    (cv.pc = "returned" /\ (cv.from_unit = cv.to_unit \/ FromNorm = ToNorm))
      => cv.result = cv.qty

\* C14: with "bread" in the item name packet -> slice gives q*15 and slice -> packet
\* q/15; with a leafy-herb word in it packet <-> bunch gives q; the units are compared
\* after normalization; without such a name these unit pairs give None.
C14_ItemOverride ==
    cv.pc = "returned"
      => /\ (NameHolds(w_bread) /\ FromNorm = u_packet /\ ToNorm = u_slice)
              => cv.result = RMul(cv.qty, Whole(15))
         /\ (NameHolds(w_bread) /\ FromNorm = u_slice /\ ToNorm = u_packet)
              => cv.result = RDiv(cv.qty, Whole(15))
         /\ LeafyOverride => cv.result = cv.qty
         /\ (/\ <<FromNorm, ToNorm>> \in {<<u_packet, u_slice>>, <<u_slice, u_packet>>,
                                          <<u_packet, u_bunch>>, <<u_bunch, u_packet>>}
             /\ ~BreadOverride /\ ~LeafyOverride)
              => cv.result = NoneValue

\* 1 "Packets" of "Sliced Bread Packet" is 15 "slices"
C14_Witness ==
    /\ cv.pc = "returned" /\ cv.item_name = n_SlicedBreadPacket
    /\ cv.qty = Whole(1) /\ cv.from_unit = u_Packets /\ cv.to_unit = u_slices
    /\ cv.result = Whole(15)

\* C15: between two distinct registered volume tokens, and between two distinct
\* registered weight tokens, convert gives q * factor(from) / factor(to) with the
\* factors of the specification, whatever the item name; 1 tsp is 0.005 l and 1 tbsp
\* 0.015 l.
C15_SameClass ==
    cv.pc = "returned"
      => /\ (/\ FromNorm \in DOMAIN VolumeFactor /\ ToNorm \in DOMAIN VolumeFactor
             /\ FromNorm # ToNorm)
              => cv.result = RDiv(RMul(cv.qty, VolumeFactor[FromNorm]),
                                  VolumeFactor[ToNorm])
         /\ (/\ FromNorm \in DOMAIN WeightFactor /\ ToNorm \in DOMAIN WeightFactor
             /\ FromNorm # ToNorm)
              => cv.result = RDiv(RMul(cv.qty, WeightFactor[FromNorm]),
                                  WeightFactor[ToNorm])
         /\ (cv.qty = Whole(1) /\ cv.from_unit = u_tsp /\ cv.to_unit = u_l)
              => cv.result = Rat(5, 1000)
         /\ (cv.qty = Whole(1) /\ cv.from_unit = u_tbsp /\ cv.to_unit = u_l)
              => cv.result = Rat(15, 1000)

\* 1 tsp of an item named "Sliced Bread Packet" is 0.005 l all the same
C15_Witness ==
    /\ cv.pc = "returned" /\ cv.item_name = n_SlicedBreadPacket
    /\ cv.qty = Whole(1) /\ cv.from_unit = u_tsp /\ cv.to_unit = u_l
    /\ cv.result = Rat(1, 200)

\* C16: between a volume token and a weight token convert goes through ml and g with
\* 1 ml = 1 g: q * mlFactor(from) / gFactor(to) from volume to weight and
\* q * gFactor(from) / mlFactor(to) from weight to volume; 0.5 cup is 0.12 kg and
\* 0.25 cup is 60 g.
C16_DensityBridge ==
    cv.pc = "returned"
      => /\ (FromNorm \in DOMAIN VolumeFactor /\ ToNorm \in DOMAIN WeightFactor)
              => cv.result = RDiv(RMul(cv.qty, VolumeFactor[FromNorm]),
                                  WeightFactor[ToNorm])
         /\ (FromNorm \in DOMAIN WeightFactor /\ ToNorm \in DOMAIN VolumeFactor)
              => cv.result = RDiv(RMul(cv.qty, WeightFactor[FromNorm]),
                                  VolumeFactor[ToNorm])
         /\ (cv.qty = Rat(1, 2) /\ cv.from_unit = u_cup /\ cv.to_unit = u_kg)
              => cv.result = Rat(12, 100)
         /\ (cv.qty = Rat(1, 4) /\ cv.from_unit = u_cup /\ cv.to_unit = u_g)
              => cv.result = Whole(60)

\* 0.5 cup is 0.12 kg, and 2 lb are 0.90718 l
C16_Witness ==
    \/ /\ cv.pc = "returned" /\ cv.qty = Rat(1, 2) /\ cv.from_unit = u_cup
       /\ cv.to_unit = u_kg /\ cv.result = Rat(3, 25)
    \/ /\ cv.pc = "returned" /\ cv.qty = Whole(2) /\ cv.from_unit = u_lb
       /\ cv.to_unit = u_l /\ cv.result = Rat(90718, 100000)

\* the normalized token has a factor in one of the two tables
Registered(u) == u \in DOMAIN volume_to_ml \cup DOMAIN weight_to_g

\* C17: when the two tokens differ, one of them is a count-only or unknown token with
\* no registered factor and no item-specific override applies, convert returns None.
C17_Unconvertible ==
    (/\ cv.pc = "returned" /\ cv.from_unit # cv.to_unit
     /\ ~Registered(FromNorm) \/ ~Registered(ToNorm)
     /\ ~BreadOverride /\ ~LeafyOverride)
      => cv.result = NoneValue

\* 2 "unit" of milk asked in "kg": None
C17_Witness ==
    /\ cv.pc = "returned" /\ cv.from_unit = u_unit /\ cv.to_unit = u_kg
    /\ cv.item_name = n_Milk /\ cv.result = NoneValue

\* C18: "oz" against another registered volume token converts as a fluid ounce of
\* 29.57 ml; against a token registered only as weight it converts inside the weight
\* table as 28.35 g; the density bridge (29.57 ml taken as grams) is never what is
\* applied to "oz".
C18_OunceLookup ==
    cv.pc = "returned"
      => /\ (cv.from_unit = u_oz /\ cv.to_unit \in DOMAIN VolumeFactor)
              => cv.result = RDiv(RMul(cv.qty, FluidOunce), VolumeFactor[cv.to_unit])
         /\ (cv.to_unit = u_oz /\ cv.from_unit \in DOMAIN VolumeFactor)
              => cv.result = RDiv(RMul(cv.qty, VolumeFactor[cv.from_unit]), FluidOunce)
         /\ (cv.from_unit = u_oz /\ cv.to_unit \in DOMAIN WeightFactor)
              => /\ cv.result = RDiv(RMul(cv.qty, WeightOunce), WeightFactor[cv.to_unit])
                 /\ cv.result # RDiv(RMul(cv.qty, FluidOunce), WeightFactor[cv.to_unit])
         /\ (cv.to_unit = u_oz /\ cv.from_unit \in DOMAIN WeightFactor)
              => /\ cv.result = RDiv(RMul(cv.qty, WeightFactor[cv.from_unit]), WeightOunce)
                 /\ cv.result # RDiv(RMul(cv.qty, WeightFactor[cv.from_unit]), FluidOunce)

\* 1 oz is 29.57 ml, and 1 oz is 28.35 g
C18_Witness ==
    /\ cv.pc = "returned" /\ cv.qty = Whole(1) /\ cv.from_unit = u_oz
    /\ \/ cv.to_unit = u_ml /\ cv.result = Rat(2957, 100)
       \/ cv.to_unit = u_g /\ cv.result = Rat(2835, 100)

\* C19: for two registered tokens a, b of the same class, converting q from a to b and
\* the result back from b to a gives q again.
C19_RoundTrip ==
    (/\ cv.pc = "back"
     /\ \/ FromNorm \in DOMAIN volume_to_ml /\ ToNorm \in DOMAIN volume_to_ml
        \/ FromNorm \in DOMAIN weight_to_g /\ ToNorm \in DOMAIN weight_to_g)
      => cv.back = cv.qty

\* 2 gal to oz and back: 2 gal again
C19_Witness ==
    /\ cv.pc = "back" /\ cv.qty = Whole(2) /\ cv.from_unit = u_gal /\ cv.to_unit = u_oz
    /\ cv.result = Rat(757000, 2957) /\ cv.back = Whole(2)

----------------------------------------------------------------------------
(* Properties of the ingredient parser *)

\* the trimmed text parsed, its leading digits, and the number t[i..j] writes
ParsedText == Strip(ps.ingredient_str)
LeadDigits == Run(ParsedText, 1, Digit)
Number(i, j) == Whole(ToInt(SubSeq(ParsedText, i, j)))

\* the text right after the leading digits: blanks, digits, "/", digits
MixedShape ==
    LET t == ParsedText
        a == LeadDigits
        w == Run(t, a + 1, {" "})
        b == Run(t, a + w + 1, Digit)
    IN  /\ a > 0 /\ w > 0 /\ b > 0 /\ a + w + b < Len(t)
        /\ t[a + w + b + 1] = "/" /\ Run(t, a + w + b + 2, Digit) > 0

\* the leading digits are followed by the separator and a digit
SeparatedShape(sep) ==
    /\ LeadDigits > 0 /\ LeadDigits + 1 < Len(ParsedText)
    /\ ParsedText[LeadDigits + 1] = sep /\ ParsedText[LeadDigits + 2] \in Digit

\* C20: the leading numeric token is read as a mixed fraction before a simple
\* fraction, before a decimal, before an integer; its value is whole + num/den for
\* "W N/D", num/den for "N/D" and the number written for a decimal or an integer
\* (denominators other than zero). "1 1/2 cup Milk" parses to (1.5, "cup", "Milk").
C20_Quantity ==
    (ps.pc = "returned" /\ LeadDigits > 0)
      => LET t == ParsedText
             a == LeadDigits
             w == Run(t, a + 1, {" "})
             b == Run(t, a + w + 1, Digit)
             c == Run(t, a + w + b + 2, Digit)
             f == Run(t, a + 2, Digit)
         IN  /\ IF MixedShape
                THEN Number(a + w + b + 2, a + w + b + 1 + c) # Zero
                       => ps.result.qty =
                            RAdd(Number(1, a),
                                 RDiv(Number(a + w + 1, a + w + b),
                                      Number(a + w + b + 2, a + w + b + 1 + c)))
                ELSE IF SeparatedShape("/")
                THEN Number(a + 2, a + 1 + f) # Zero
                       => ps.result.qty = RDiv(Number(1, a), Number(a + 2, a + 1 + f))
                ELSE IF SeparatedShape(".")
                THEN ps.result.qty =
                       RAdd(Number(1, a), RDiv(Number(a + 2, a + 1 + f), Whole(Pow10(f))))
                ELSE ps.result.qty = Number(1, a)
             /\ ps.ingredient_str = <<"1"," ","1","/","2"," ","c","u","p"," ","M","i","l","k">>
                  => ps.result = [qty |-> Rat(3, 2), unit |-> u_cup, name |-> n_Milk]

\* "1 1/2 cup Milk" has been parsed to 1.5 cup of Milk
C20_Witness ==
    /\ ps.pc = "returned"
    /\ ps.ingredient_str = <<"1"," ","1","/","2"," ","c","u","p"," ","M","i","l","k">>
    /\ ps.result = [qty |-> Rat(3, 2), unit |-> u_cup, name |-> n_Milk]

\* the call returned a (quantity, unit, name) triple
Returned == ps.pc = "returned" /\ ps.result # ZeroDivisionError

\* the remainder after the numeric token, its words and its first word as compared
Remainder ==
    LET t == ParsedText
        a == LeadDigits
        w == Run(t, a + 1, {" "})
        b == Run(t, a + w + 1, Digit)
        c == Run(t, a + w + b + 2, Digit)
        f == Run(t, a + 2, Digit)
        e == IF MixedShape THEN a + w + b + 1 + c
             ELSE IF SeparatedShape("/") \/ SeparatedShape(".") THEN a + 1 + f
             ELSE a
    IN  Strip(SubSeq(t, e + 1, Len(t)))
RemainderWords == Split(Remainder)
FirstWord == RStripChar(Lower(RemainderWords[1]), "s")

\* the recognized-unit vocabulary of the specification
Vocabulary ==
    {<<"c","u","p">>,
     <<"t","b","s","p">>,
     <<"t","s","p">>,
     <<"g">>,
     <<"k","g">>,
     <<"m","l">>,
     <<"l">>,
     <<"o","z">>,
     <<"l","b">>,
     <<"p","i","e","c","e">>,
     <<"s","l","i","c","e">>,
     <<"c","l","o","v","e">>,
     <<"p","i","n","c","h">>,
     <<"b","u","n","c","h">>,
     <<"p","a","c","k","e","t">>}

\* C21: parse_ingredient_string never raises: a zero denominator in the numeric token
\* falls back to quantity 1.0 and the call returns a (quantity, unit, name) triple.
C21_NeverRaises ==
    ps.pc = "returned"
      => /\ ps.result # ZeroDivisionError
         /\ DOMAIN ps.result = {"qty", "unit", "name"}
         /\ ps.ingredient_str \in {<<"1","/","0"," ","c","u","p"," ","M","i","l","k">>,
                                   <<"2"," ","1","/","0"," ","c","u","p"," ","M","i","l","k">>}
              => ps.result.qty = Whole(1)

\* C22: with a leading number matched and the first word of the remainder, lower-cased
\* and with trailing s stripped, in the vocabulary, the unit returned is that singular
\* token and the name the other words joined by single spaces; "200g Chicken" gives
\* (200.0, "g", "Chicken") and "2 Cups  Rice" gives (2.0, "cup", "Rice").
C22_UnitRecognised ==
    (ps.pc = "returned" /\ LeadDigits > 0 /\ RemainderWords # <<>> /\ FirstWord \in Vocabulary)
      => /\ ps.result # ZeroDivisionError
         /\ ps.result.unit = FirstWord
         /\ ps.result.name = Join(Tail(RemainderWords))
         /\ ps.ingredient_str = <<"2","0","0","g"," ","C","h","i","c","k","e","n">>
              => ps.result = [qty |-> Whole(200), unit |-> u_g, name |-> <<"C","h","i","c","k","e","n">>]
         /\ ps.ingredient_str = <<"2"," ","C","u","p","s"," "," ","R","i","c","e">>
              => ps.result = [qty |-> Whole(2), unit |-> u_cup, name |-> n_Rice]

\* C23: with a leading number matched and the first word of the remainder not a
\* recognised unit, the remainder being possibly empty as in "2", the unit returned
\* is "unit" and the name is the entire remainder, first word included.
C23_NonUnit ==
    (/\ ps.pc = "returned" /\ LeadDigits > 0
     /\ RemainderWords = <<>> \/ FirstWord \notin Vocabulary)
      => /\ ps.result # ZeroDivisionError
         /\ ps.result.unit = u_unit
         /\ ps.result.name = Remainder

\* C24: a text whose trimmed form does not begin with a numeric token, the empty
\* text, "Salt to taste" and ".1 cup Milk" included, parses to quantity 1.0, unit
\* "as needed" and the trimmed text as name, and nothing is raised.
C24_Defaults ==
    (ps.pc = "returned" /\ LeadDigits = 0)
      => ps.result = [qty |-> Whole(1), unit |-> u_as_needed, name |-> ParsedText]

\* ".1 cup Milk" has been parsed to the defaults
C24_Witness ==
    /\ ps.pc = "returned" /\ ps.ingredient_str = <<".","1"," ","c","u","p"," ","M","i","l","k">>
    /\ ps.result = [qty |-> Whole(1), unit |-> u_as_needed, name |-> <<".","1"," ","c","u","p"," ","M","i","l","k">>]

----------------------------------------------------------------------------
(* Properties of the shopping list *)

\* C29: when deduct_ingredients deletes a record that a deduction exhausts, every
\* ShoppingList row that references the record goes with it, the rows of other
\* records and the other inventory records stay as they are; a deduction that only
\* decrements the record leaves the shopping list unchanged.
C29_CascadeDelete ==
    [][\A r \in Slots :
         (reqs[r].kind = "deduct" /\ reqs[r].pc = "write" /\ Took(r))
           => IF reqs'[r].deleted_count = reqs[r].deleted_count + 1
              THEN LET id == reqs[r].local.id IN
                   /\ DOMAIN shopping' = {k \in DOMAIN shopping : shopping[k].grocery # id}
                   /\ \A k \in DOMAIN shopping' : shopping'[k] = shopping[k]
                   /\ \A pk \in DOMAIN groceries \ {id} :
                        pk \in DOMAIN groceries' /\ groceries'[pk] = groceries[pk]
              ELSE shopping' = shopping]_vars

\* record 1 was exhausted and deleted: its shopping-list row is gone, rows 2 and 3 stay
C29_Witness ==
    /\ \E r \in Slots : reqs[r].kind = "deduct" /\ reqs[r].last = "deleted"
                        /\ reqs[r].item.grocery_id = 1
    /\ 1 \notin DOMAIN groceries
    /\ DOMAIN shopping = {2, 3}
    /\ shopping[3] = ShopRow(3, 3, "A", 2)

----------------------------------------------------------------------------
(* Further properties of the bill merge resolver and the deduction planner *)

\* the records of the user that carry the name, ignoring case
Named(table, user, bg_name) ==
    {pk \in DOMAIN table :
       table[pk].user = user /\ Lower(table[pk].grocery_name) = Lower(bg_name)}

\* C27: save_bill_items tries to merge only into the first (lowest-id) record of the
\* user with the scanned name; when that record's unit is neither equal to nor
\* convertible from the scanned unit a new record is created, even if another record
\* with the name and exactly the scanned unit exists, so each repeated scan of the
\* name and unit adds one more record.
C27_RepeatedScanAdds ==
    [][\A r \in Slots :
         /\ (TakesEntry(r, "bill") /\ reqs'[r].pc = "save")
              => LET same == Named(groceries, reqs[r].user, Strip(reqs'[r].item.name))
                 IN  reqs'[r].local.id = CHOOSE pk \in same : \A o \in same : pk <= o
         /\ (/\ reqs[r].kind = "bill" /\ reqs[r].pc = "create" /\ Took(r)
             /\ reqs[r].local # NoneValue
             /\ \E pk \in Named(groceries, reqs[r].user, Strip(reqs[r].item.name)) :
                  groceries[pk].unit = reqs[r].item.unit)
              => LET bg_name == Strip(reqs[r].item.name) IN
                 /\ DOMAIN groceries \subseteq DOMAIN groceries'
                 /\ Cardinality(Named(groceries', reqs[r].user, bg_name))
                      = Cardinality(Named(groceries, reqs[r].user, bg_name)) + 1
    ]_vars

\* C28: within one deduct_ingredients request the entries are applied in list order
\* against the stored state: an entry sees the quantity left by the entries before
\* it, an entry whose record an earlier entry deleted is skipped, a record is counted
\* as deleted at most once, and updated_count + deleted_count never exceeds the
\* number of entries.
C28_InOrder ==
    [][\A r \in Slots :
         /\ (reqs[r].kind = "deduct" /\ reqs[r].pc = "write" /\ Took(r))
              => LET id == reqs[r].local.id
                     d == reqs[r].item.deduct_qty
                 IN  /\ id \in DOMAIN groceries /\ reqs[r].local = groceries[id]
                     /\ IF RLe(groceries[id].quantity, d)
                        THEN id \notin DOMAIN groceries'
                        ELSE groceries'[id].quantity = RSub(groceries[id].quantity, d)
         /\ (/\ TakesEntry(r, "deduct") /\ reqs'[r].item.grocery_id \in {1, 2, 3}
             /\ reqs'[r].item.grocery_id \notin DOMAIN groceries)
              => /\ reqs'[r].pc = "loop" /\ groceries' = groceries
                 /\ reqs'[r].updated_count = reqs[r].updated_count
                 /\ reqs'[r].deleted_count = reqs[r].deleted_count
         /\ reqs'[r].updated_count + reqs'[r].deleted_count <= reqs'[r].idx
         /\ reqs'[r].deleted_count <= Cardinality({1, 2, 3} \ DOMAIN groceries')
    ]_vars

\* two entries of 1 l on the 2 l of record 1: the first leaves 1 l, which the second
\* exhausts
C28_Witness ==
    /\ reqs[1].kind = "deduct" /\ reqs[1].idx = 2
    /\ reqs[1].item = [grocery_id |-> 1, deduct_qty |-> Whole(1)]
    /\ reqs[1].updated_count = 1 /\ reqs[1].deleted_count = 1
    /\ 1 \notin DOMAIN groceries

----------------------------------------------------------------------------
(* Properties of the retry wrapper *)

RetryFailed(outcome) ==
    "raised" \in DOMAIN outcome \/ outcome.status_code \in Retryable

\* what holds of every attempt, whatever the end of the last one
RetryPolicy ==
    /\ rt.posts <= 3
    /\ rt.pc = "got" => rt.posts = rt.attempt + 1
    /\ Len(rt.sleeps) = rt.attempt
    /\ \A k \in 1..Len(rt.sleeps) :
         RLe(Whole(Pow2(k - 1)), rt.sleeps[k]) /\ RLt(rt.sleeps[k], Whole(Pow2(k - 1) + 1))
    /\ (rt.pc \in {"returned", "raised"} /\ ~RetryFailed(rt.got))
         => rt.pc = "returned" /\ rt.result = rt.got /\ Len(rt.sleeps) = rt.posts - 1
    /\ (rt.pc \in {"returned", "raised"} /\ RetryFailed(rt.got)) => rt.posts = 3
    /\ (rt.pc = "post" /\ rt.attempt > 0) => RetryFailed(rt.got)

\* C25 (as stated): at most 3 POST attempts; a 200 or a status outside
\* {429, 500, 502, 503, 504} is returned at once; a retryable status or transport error
\* on a non-final attempt is followed by a sleep of 2^attempt + jitter in [0,1) and
\* the next attempt; when the final attempt fails too, by a retryable status or by a
\* transport error, the last failed response is returned to the caller.
C25_ReturnsLastResponse ==
    /\ RetryPolicy
    /\ rt.pc # "raised"
    /\ (rt.pc = "returned" /\ RetryFailed(rt.got))
         => rt.result = rt.got /\ "status_code" \in DOMAIN rt.result

\* C25 (amended): as stated, but when the final attempt fails the last failed response
\* is returned if it failed by a retryable status, and the timeout or connection error
\* is raised to the caller if it failed by a transport error.
C25_ReturnsOrRaises ==
    /\ RetryPolicy
    /\ (rt.pc \in {"returned", "raised"} /\ RetryFailed(rt.got))
         => /\ rt.result = rt.got
            /\ rt.pc = "raised" <=> "raised" \in DOMAIN rt.got
            /\ rt.pc = "returned" <=> "status_code" \in DOMAIN rt.result

\* a 503, then a timeout, then a 429 returned after sleeps of 1.5 s and 2 s; and three
\* attempts that end in a connection error, which is raised
C25_Witness ==
    \/ /\ rt.pc = "returned" /\ rt.posts = 3 /\ rt.result = Response(429, 2)
       /\ rt.sleeps = <<Rat(3, 2), Whole(2)>>
    \/ /\ rt.pc = "raised" /\ rt.posts = 3 /\ rt.result = [raised |-> "ConnectionError"]

----------------------------------------------------------------------------
(* Properties of the recipe list search *)

RECURSIVE RecipeLists(_)
\* the lists held under a key named "recipes" at any depth of the tree
RecipeLists(v) ==
    IF v.t # "dict" THEN {}
    ELSE UNION {(IF v.entries[i].key = k_recipes /\ v.entries[i].value.t = "list"
                 THEN {v.entries[i].value} ELSE {})
                \cup RecipeLists(v.entries[i].value) : i \in 1..Len(v.entries)}

\* C26: for a JSON tree that holds a list under a key named "recipes" at some depth,
\* get_list_from_json returns that list whatever else the tree holds beside it; a
\* top-level list is returned as it is; the result is always a list.
C26_FindsRecipes ==
    js.pc = "returned"
      => /\ js.result.t = "list"
         /\ js.data.t = "list" => js.result = js.data
         /\ RecipeLists(js.data) # {} => js.result \in RecipeLists(js.data)

----------------------------------------------------------------------------
(* Properties of a suggestion that is submitted *)

\* C30: as the converted suggestion is rounded to 2 decimals, an ingredient with a
\* positive quantity can get the suggestion 0.0 (1 ml against a record kept in l); a
\* deduction entry submitted with that amount is skipped by deduct_ingredients as
\* non-positive and the matched record stays unchanged.
C30_ZeroSuggestionSkipped ==
    [][/\ (/\ mt.pc = "answered" /\ mt.best_match_id # NoneValue
           /\ mt.ri_unit = u_ml /\ BestMatch.unit = u_l /\ RLt(mt.ri_quantity, Whole(5)))
            => mt.deduct_qty_suggestion = Zero
       /\ \A r \in Slots :
            (/\ mt.pc = "answered" /\ Positive(mt.ri_quantity)
             /\ mt.deduct_qty_suggestion = Zero
             /\ TakesEntry(r, "deduct") /\ reqs'[r].item = PlanEntry)
              => /\ reqs'[r].last = "skipped" /\ reqs'[r].pc = "loop"
                 /\ reqs'[r].updated_count = reqs[r].updated_count
                 /\ reqs'[r].deleted_count = reqs[r].deleted_count
                 /\ groceries' = groceries /\ shopping' = shopping
    ]_vars

\* 1 ml of milk against B's Milk kept in l: 0.0 suggested, the entry skipped, 1 l left
C30_Witness ==
    /\ mt.pc = "answered" /\ mt.user = "B"
    /\ mt.ri_quantity = Whole(1) /\ mt.ri_unit = u_ml
    /\ mt.best_match_id = [id |-> 2] /\ mt.deduct_qty_suggestion = Zero
    /\ mt.conversion_note = [quantity |-> Whole(1), unit |-> u_ml]
    /\ \E r \in Slots : /\ reqs[r].kind = "deduct" /\ reqs[r].idx = 1
                        /\ reqs[r].item = [grocery_id |-> 2, deduct_qty |-> Zero]
                        /\ reqs[r].last = "skipped"
    /\ groceries[2] = Row(2, "B", n_milk, Whole(1), u_l)

====
